---- MODULE Spec2Model ----
(***************************************************************************)
(* Menu normalization pipeline of the Nutrislice menu widget API:          *)
(* date utilities (app/utils.py), the TTL cache and the menu fetcher       *)
(* (app/services/menu_fetcher.py) and the menu service                     *)
(* (app/services/menu_service.py).                                         *)
(*                                                                         *)
(* Text is a sequence of one-character strings, so that trimming, case     *)
(* folding, prefix and substring tests and the regular-expression cleanup  *)
(* are computed character by character as Python computes them.  The       *)
(* letter e-acute is the character "e_acute".  A date is its day number    *)
(* counted from Monday 2024-01-01 (day 0).                                 *)
(***************************************************************************)
EXTENDS Integers, Sequences, FiniteSets

VARIABLES store, now, calls, last, pin, pout, threads

vars == <<store, now, calls, last, pin, pout, threads>>

(***************************************************************************)
(* Characters and Python's str methods                                     *)
(***************************************************************************)
UpperChars == <<"A","B","C","D","E","F","G","H","I","J","K","L","M","N","O","P","Q","R","S","T","U","V","W","X","Y","Z","E_ACUTE">>

LowerChars == <<"a","b","c","d","e","f","g","h","i","j","k","l","m","n","o","p","q","r","s","t","u","v","w","x","y","z","e_acute">>

DigitChars == <<"0","1","2","3","4","5","6","7","8","9">>

Range(f) == {f[i] : i \in DOMAIN f}

\* str.isspace for one character
IsSpace(c) == c \in {" ", "\t"}

WordChars == Range(UpperChars) \cup Range(LowerChars) \cup Range(DigitChars) \cup {"_"}

\* the regular-expression class \w for one character
IsWord(c) == c \in WordChars

LowerOfUpper == [c \in Range(UpperChars) |-> LowerChars[CHOOSE i \in DOMAIN UpperChars : UpperChars[i] = c]]

\* str.lower for one character
LowerChar(c) == IF c \in DOMAIN LowerOfUpper THEN LowerOfUpper[c] ELSE c

\* str.lower
Lower(s) == [i \in DOMAIN s |-> LowerChar(s[i])]

\* first index >= i that is past the end of s or holds a non-space character
RECURSIVE SkipWs(_, _)
SkipWs(s, i) == IF i <= Len(s) /\ IsSpace(s[i]) THEN SkipWs(s, i + 1) ELSE i

\* last index <= i that is 0 or holds a non-space character
RECURSIVE SkipWsBack(_, _)
SkipWsBack(s, i) == IF i >= 1 /\ IsSpace(s[i]) THEN SkipWsBack(s, i - 1) ELSE i

\* str.strip
Strip(s) == SubSeq(s, SkipWs(s, 1), SkipWsBack(s, Len(s)))

\* s[i:].startswith(w), characters compared as they are
HasAt(s, i, w) ==
  /\ i + Len(w) - 1 <= Len(s)
  /\ \A j \in 1..Len(w) : s[i + j - 1] = w[j]

\* str.startswith
StartsWith(s, w) == HasAt(s, 1, w)

\* the Python test  w in s
Contains(s, w) == \E i \in 1..(Len(s) + 1) : HasAt(s, i, w)

\* sep.join(tokens)
RECURSIVE Join(_, _)
Join(tokens, sep) ==
  IF tokens = <<>> THEN <<>>
  ELSE IF Len(tokens) = 1 THEN tokens[1]
  ELSE tokens[1] \o sep \o Join(Tail(tokens), sep)

(***************************************************************************)
(* Literals of menu_fetcher.py                                             *)
(***************************************************************************)
S_breakfast == <<"b","r","e","a","k","f","a","s","t">>

S_with == <<"w","i","t","h">>

S_and == <<"a","n","d">>

S_or == <<"o","r">>

S_no_school == <<"n","o"," ","s","c","h","o","o","l">>

\* MenuFetcher._ORDER
ORDER == <<"Breakfast", "Lunch", "Grab & Go", "Deli Entree">>

\* MenuFetcher.header_map as the set of its (alias, canonical name) pairs
header_map ==
  { <<S_breakfast, "Breakfast">>,
    <<<<"l","u","n","c","h">>, "Lunch">>,
    <<<<"g","r","a","b"," ","&"," ","g","o">>, "Grab & Go">>,
    <<<<"g","r","a","b"," ","a","n","d"," ","g","o">>, "Grab & Go">>,
    <<<<"d","e","l","i"," ","e","n","t","r","e","e">>, "Deli Entree">>,
    <<<<"d","e","l","i"," ","e","n","t","r","e_acute","e">>, "Deli Entree">> }

\* the test  k in self.header_map
IsHeader(k) == \E h \in header_map : h[1] = k

\* self.header_map[k]
HeaderOf(k) == (CHOOSE h \in header_map : h[1] = k)[2]

\* sorted(self.conjunctions)
conjunctions == <<S_and, S_or, S_with>>

\* the closure keywords of _maybe_convert_to_no_school
keywords ==
  { <<"c","o","n","f","e","r","e","n","c","e">>,
    <<"c","o","n","f","e","r","e","n","c","e","s">>,
    <<"s","t","a","f","f"," ","d","e","v","e","l","o","p","m","e","n","t">>,
    <<"i","n","s","e","r","v","i","c","e">>,
    <<"i","n","-","s","e","r","v","i","c","e">>,
    <<"t","e","a","c","h","e","r"," ","w","o","r","k"," ","d","a","y">>,
    <<"h","o","l","i","d","a","y">>,
    S_no_school,
    <<"s","c","h","o","o","l"," ","c","l","o","s","e","d">>,
    <<"e","a","r","l","y"," ","r","e","l","e","a","s","e">>,
    <<"s","n","o","w"," ","d","a","y">> }

\* the length limit of the short-text fallback of _maybe_convert_to_no_school
ReasonMaxLen == 80

(***************************************************************************)
(* re.sub for the eight patterns of the conjunction cleanup pipeline.      *)
(* None of them matches the empty string and none needs backtracking: the  *)
(* greedy \s* runs are followed by a non-space character and the           *)
(* alternatives and|or|with start with different letters.  A match is      *)
(* [e, g, gl]: e the index after the match (0 when there is none), g and   *)
(* gl the start and length of group 1.                                     *)
(***************************************************************************)
NoMatch == [e |-> 0, g |-> 0, gl |-> 0]

\* \b before position i when s[i] is a word character
BoundaryBefore(s, i) == i = 1 \/ ~IsWord(s[i - 1])

\* (?i)\bw/ at position i
WSlashAt(s, i) ==
  /\ i + 1 <= Len(s)
  /\ LowerChar(s[i]) = "w"
  /\ s[i + 1] = "/"
  /\ BoundaryBefore(s, i)

\* s[i:].lower().startswith(w) for a lower-case w
HasAtLower(s, i, w) ==
  /\ i + Len(w) - 1 <= Len(s)
  /\ \A j \in 1..Len(w) : LowerChar(s[i + j - 1]) = w[j]

\* the least element of a non-empty set of integers
Least(S) == CHOOSE x \in S : \A y \in S : x <= y

\* the length of the first alternative among hit
FirstAlternative(hit) == IF hit = {} THEN 0 ELSE Len(conjunctions[Least(hit)])

\* length of the alternative of (and|or|with) matching at i ignoring case, or 0
ConjAt(s, i) ==
  FirstAlternative({n \in 1..Len(conjunctions) : HasAtLower(s, i, conjunctions[n])})

\* the rest of a match after group 1 at g of length gl: \s* when comma is
\* FALSE, \s*,\s* when it is TRUE, the \s* ending at c2
AfterConj(s, g, gl, c2, comma) ==
  IF gl = 0 THEN NoMatch
  ELSE IF ~comma THEN [e |-> c2, g |-> g, gl |-> gl]
  ELSE IF c2 <= Len(s) /\ s[c2] = "," THEN [e |-> SkipWs(s, c2 + 1), g |-> g, gl |-> gl]
  ELSE NoMatch

\* (and|or|with) at g of length gl, then the rest
ConjOfLength(s, g, gl, comma) == AfterConj(s, g, gl, SkipWs(s, g + gl), comma)

\* (and|or|with) at g, then the rest
ConjFrom(s, g, comma) == ConjOfLength(s, g, ConjAt(s, g), comma)

\* , at c1, then \s*(and|or|with), then the rest
CommaThenConj(s, c1, comma) ==
  IF c1 <= Len(s) /\ s[c1] = "," THEN ConjFrom(s, SkipWs(s, c1 + 1), comma) ELSE NoMatch

\* the match of pattern p starting exactly at i
MatchAt(p, s, i) ==
  CASE p = "w_nonspace" ->       \* (?i)\bw/(\S)
         IF WSlashAt(s, i) /\ i + 2 <= Len(s) /\ ~IsSpace(s[i + 2])
         THEN [e |-> i + 3, g |-> i + 2, gl |-> 1] ELSE NoMatch
    [] p = "w_boundary" ->       \* (?i)\bw/\b
         IF WSlashAt(s, i) /\ i + 2 <= Len(s) /\ IsWord(s[i + 2])
         THEN [e |-> i + 2, g |-> 0, gl |-> 0] ELSE NoMatch
    [] p = "w_spaces" ->         \* (?i)\bw/\s+
         IF WSlashAt(s, i) /\ i + 2 <= Len(s) /\ IsSpace(s[i + 2])
         THEN [e |-> SkipWs(s, i + 2), g |-> 0, gl |-> 0] ELSE NoMatch
    [] p = "w_any" ->            \* (?i)\bw/
         IF WSlashAt(s, i) THEN [e |-> i + 2, g |-> 0, gl |-> 0] ELSE NoMatch
    [] p \in {"comma_conj_comma", "comma_conj"} ->
                                 \* \s*,\s*(and|or|with)\s*,\s*  and  \s*,\s*(and|or|with)\s*
         CommaThenConj(s, SkipWs(s, i), p = "comma_conj_comma")
    [] p = "conj_comma" ->       \* \s*(and|or|with)\s*,\s*
         ConjFrom(s, SkipWs(s, i), TRUE)
    [] p = "spaces" ->           \* \s{2,}
         IF i + 1 <= Len(s) /\ IsSpace(s[i]) /\ IsSpace(s[i + 1])
         THEN [e |-> SkipWs(s, i), g |-> 0, gl |-> 0] ELSE NoMatch

\* group 1 of match m
Group(s, m) == SubSeq(s, m.g, m.g + m.gl - 1)

\* the replacement text of pattern p for match m
Replacement(p, s, m) ==
  CASE p = "w_nonspace" -> <<"w", "/", " ">> \o Group(s, m)
    [] p = "w_boundary" -> S_with
    [] p \in {"w_spaces", "w_any"} -> S_with \o <<" ">>
    [] p = "comma_conj_comma" -> <<" ">> \o Group(s, m) \o <<" ">>
    [] p = "conj_comma" -> Group(s, m) \o <<" ">>
    [] p = "comma_conj" -> <<" ">> \o Group(s, m)
    [] p = "spaces" -> <<" ">>

\* re.sub(p, replacement, s) from position i on: leftmost matches, not
\* overlapping, the text between matches copied
RECURSIVE ReSubFrom(_, _, _)
\* ... given the match m found at j, the first position >= i with a match
ReSubMatch(p, s, i, j, m) ==
  SubSeq(s, i, j - 1) \o Replacement(p, s, m) \o ReSubFrom(p, s, m.e)

\* ... given the positions >= i where p matches
ReSubStarts(p, s, i, starts) ==
  IF starts = {} THEN SubSeq(s, i, Len(s))
  ELSE ReSubMatch(p, s, i, Least(starts), MatchAt(p, s, Least(starts)))

ReSubFrom(p, s, i) ==
  ReSubStarts(p, s, i, {j \in i..Len(s) : MatchAt(p, s, j).e > 0})

ReSub(p, s) == ReSubFrom(p, s, 1)

\* re.sub for each pattern of a list in turn
RECURSIVE ReSubAll(_, _)
ReSubAll(ps, s) == IF ps = <<>> THEN s ELSE ReSubAll(Tail(ps), ReSub(Head(ps), s))

\* _ensure_space_after_w_slash:  (?i)\bw/(\S) -> w/ \1
ensure_space_after_w_slash == <<"w_nonspace">>

\* _replace_w_slash_with_with:  (?i)\bw/\b -> with,  (?i)\bw/\s+ -> "with ",
\* (?i)\bw/ -> "with "
replace_w_slash_with_with == <<"w_boundary", "w_spaces", "w_any">>

\* _remove_commas_around_conjunctions:  ", X," -> " X ",  "X," -> "X ",
\* ",X" -> " X"
remove_commas_around_conjunctions == <<"comma_conj_comma", "conj_comma", "comma_conj">>

\* _normalize_whitespace without the final strip:  \s{2,} -> " "
normalize_whitespace == <<"spaces">>

\* conjunction_junction(s): the four steps in order, then .strip()
conjunction_junction(s) ==
  Strip(ReSubAll(ensure_space_after_w_slash \o replace_w_slash_with_with
                   \o remove_commas_around_conjunctions \o normalize_whitespace, s))

(***************************************************************************)
(* Python dicts keep insertion order: a dict is a sequence of <<key,       *)
(* value>> pairs with distinct keys.                                       *)
(***************************************************************************)
DictHas(d, k) == \E i \in DOMAIN d : d[i][1] = k

DictGet(d, k) == d[CHOOSE i \in DOMAIN d : d[i][1] = k][2]

\* d.get(k, default)
DictGetOr(d, k, default) == IF DictHas(d, k) THEN DictGet(d, k) ELSE default

\* d[k] = v : an existing key keeps its position, a new key goes last
DictSet(d, k, v) ==
  IF DictHas(d, k)
  THEN [i \in DOMAIN d |-> IF d[i][1] = k THEN <<k, v>> ELSE d[i]]
  ELSE Append(d, <<k, v>>)

\* d.setdefault(k, v)
DictSetDefault(d, k, v) == IF DictHas(d, k) THEN d ELSE Append(d, <<k, v>>)

\* list(d.keys())
DictKeys(d) == [i \in DOMAIN d |-> d[i][1]]

\* d.update(e)
RECURSIVE DictUpdate(_, _)
DictUpdate(d, e) ==
  IF e = <<>> THEN d
  ELSE DictUpdate(DictSet(d, e[1][1], e[1][2]), Tail(e))

(***************************************************************************)
(* Upstream JSON.  A field value is absent (or null), a string, or some    *)
(* other JSON value; "food" and "menu_item" are absent, an object, or some *)
(* other value; an element of menu_items is an object or not.              *)
(***************************************************************************)
Absent == [kind |-> "absent", s |-> <<>>]

Str(s) == [kind |-> "str", s |-> s]

NonStr == [kind |-> "other", s |-> <<>>]

NoFood == [kind |-> "absent", name |-> Absent]

Food(n) == [kind |-> "dict", name |-> n]

NoNested == [kind |-> "absent", food |-> NoFood]

Nested(f) == [kind |-> "dict", food |-> f]

Item(food, name, text, menu_item) ==
  [dict |-> TRUE, food |-> food, name |-> name, text |-> text, menu_item |-> menu_item]

\* an element of menu_items that is not an object (a string, a number, null)
NotADict == [dict |-> FALSE, food |-> NoFood, name |-> Absent, text |-> Absent, menu_item |-> NoNested]

Day(date, items) == [date |-> date, menu_items |-> items]

NoData == << <<"No data", <<"M","e","n","u"," ","n","o","t"," ","a","v","a","i","l","a","b","l","e">> >> >>

(***************************************************************************)
(* MenuFetcher: name extraction, closure detection, bucket parsing         *)
(***************************************************************************)
\* _food_name(mi) for an object mi
food_name(mi) ==
  IF mi.food.kind = "dict" /\ mi.food.name.kind = "str"
  THEN Strip(mi.food.name.s)
  ELSE IF mi.name.kind = "str" /\ Strip(mi.name.s) # <<>>
  THEN Strip(mi.name.s)
  ELSE IF mi.text.kind = "str" /\ Strip(mi.text.s) # <<>>
  THEN Strip(mi.text.s)
  ELSE IF /\ mi.menu_item.kind = "dict"
          /\ mi.menu_item.food.kind = "dict"
          /\ mi.menu_item.food.name.kind = "str"
  THEN Strip(mi.menu_item.food.name.s)
  ELSE <<>>

\* the test  nm and nm.lower().startswith("no school")
is_no_school_name(nm) == nm # <<>> /\ StartsWith(Lower(nm), S_no_school)

\* _explicit_no_school returning the name of the last closure item
RECURSIVE explicit_no_school_last(_)
explicit_no_school_last(items) ==
  IF items = <<>> THEN <<>>
  ELSE IF explicit_no_school_last(Tail(items)) # <<>> THEN explicit_no_school_last(Tail(items))
  ELSE IF Head(items).dict /\ is_no_school_name(food_name(Head(items)))
  THEN food_name(Head(items))
  ELSE <<>>

\* _explicit_no_school(items): the name found, or <<>> for None
RECURSIVE explicit_no_school(_)
explicit_no_school(items) ==
  IF items = <<>> THEN <<>>
  ELSE IF Head(items).dict /\ is_no_school_name(food_name(Head(items)))
  THEN food_name(Head(items))
  ELSE explicit_no_school(Tail(items))

\* the token appended for the name with key k: the key for a conjunction
bucket_token(name, k) == IF k \in Range(conjunctions) THEN k ELSE name

\* the default bucket being Lunch whatever the name
default_bucket_lunch(k) == "Lunch"

\* the bucket chosen when no header was seen yet
default_bucket(k) == IF Contains(k, S_breakfast) THEN "Breakfast" ELSE "Lunch"

\* the token loop of _parse_meals: buckets maps a bucket name to its token
\* list, cur is current_bucket ("" for None)
RECURSIVE bucket_scan(_, _, _)
\* ... buckets[cur].append(token), then the rest of the items
bucket_append(rest, buckets, cur, token) ==
  bucket_scan(rest, DictSet(buckets, cur, Append(DictGet(buckets, cur), token)), cur)

\* the body of the loop appending the text of a header to its bucket
bucket_item_appending_header(rest, buckets, cur, name, k) ==
  IF name = <<>> THEN bucket_scan(rest, buckets, cur)
  ELSE IF IsHeader(k)
  THEN bucket_append(rest, DictSetDefault(buckets, HeaderOf(k), <<>>), HeaderOf(k), name)
  ELSE IF cur = ""
  THEN bucket_append(rest, DictSetDefault(buckets, default_bucket(k), <<>>), default_bucket(k),
                     bucket_token(name, k))
  ELSE bucket_append(rest, buckets, cur, bucket_token(name, k))

\* ... the body of the loop for the name of one item, k being its key
bucket_item(rest, buckets, cur, name, k) ==
  IF name = <<>> THEN bucket_scan(rest, buckets, cur)
  ELSE IF IsHeader(k)
  THEN bucket_scan(rest, DictSetDefault(buckets, HeaderOf(k), <<>>), HeaderOf(k))
  ELSE IF cur = ""
  THEN bucket_append(rest, DictSetDefault(buckets, default_bucket(k), <<>>), default_bucket(k),
                     bucket_token(name, k))
  ELSE bucket_append(rest, buckets, cur, bucket_token(name, k))

bucket_scan(items, buckets, cur) ==
  IF items = <<>> THEN buckets
  ELSE bucket_item(Tail(items), buckets, cur, food_name(Head(items)),
                   Lower(Strip(food_name(Head(items)))))

\* the join loop of _parse_meals: empty buckets dropped, the others joined
\* with ", " and cleaned
RECURSIVE join_buckets(_)
join_buckets(buckets) ==
  IF buckets = <<>> THEN <<>>
  ELSE IF buckets[1][2] = <<>> THEN join_buckets(Tail(buckets))
  ELSE << <<buckets[1][1], conjunction_junction(Join(buckets[1][2], <<",", " ">>))>> >>
         \o join_buckets(Tail(buckets))

\* _parse_meals(items) when no item raises
parse_meals(items) == join_buckets(bucket_scan(items, <<>>, ""))

\* _parse_meals(items) raises: _food_name(mi) raises AttributeError at mi.get
\* when an item mi is not an object
parse_meals_raises(items) == \E i \in DOMAIN items : ~items[i].dict

\* (meals.get(bucket) or "").strip()
bucket_text(meals, bucket) == Strip(DictGetOr(meals, bucket, <<>>))

\* bool(lunch) and not breakfast and not grab and not deli
only_lunch_has_text(meals) ==
  /\ bucket_text(meals, "Lunch") # <<>>
  /\ bucket_text(meals, "Breakfast") = <<>>
  /\ bucket_text(meals, "Grab & Go") = <<>>
  /\ bucket_text(meals, "Deli Entree") = <<>>

\* the end of _maybe_convert_to_no_school with  len(reason) < 80
convert_reason_below_limit(meals, reason) ==
  IF \E kw \in keywords : Contains(Lower(reason), kw)
  THEN << <<"No school", reason>> >>
  ELSE IF Len(reason) < ReasonMaxLen
  THEN << <<"No school", reason>> >>
  ELSE meals

\* the end of _maybe_convert_to_no_school adding "No school" to the meals
convert_reason_keeping_meals(meals, reason) ==
  IF \E kw \in keywords : Contains(Lower(reason), kw)
  THEN DictSet(meals, "No school", reason)
  ELSE IF Len(reason) <= ReasonMaxLen
  THEN DictSet(meals, "No school", reason)
  ELSE meals

\* the end of _maybe_convert_to_no_school, reason being the Lunch text
convert_reason(meals, reason) ==
  IF \E kw \in keywords : Contains(Lower(reason), kw)
  THEN << <<"No school", reason>> >>
  ELSE IF Len(reason) <= ReasonMaxLen
  THEN << <<"No school", reason>> >>
  ELSE meals

\* _maybe_convert_to_no_school(meals)
maybe_convert_to_no_school(meals) ==
  IF meals = <<>> THEN meals
  ELSE IF DictHas(meals, "No school") THEN meals
  ELSE IF ~only_lunch_has_text(meals) THEN meals
  ELSE convert_reason(meals, bucket_text(meals, "Lunch"))

\* the entries of day_menu under the keys given, in their order
order_by(day_menu, keys) == [i \in DOMAIN keys |-> <<keys[i], DictGet(day_menu, keys[i])>>]

\* the keys left in the order of their insertion
order_day_menu_as_inserted(day_menu) == day_menu

\* _order_day_menu(day_menu)
order_day_menu(day_menu) ==
  order_by(day_menu, SelectSeq(ORDER, LAMBDA k : DictHas(day_menu, k))
                       \o SelectSeq(DictKeys(day_menu), LAMBDA k : k \notin Range(ORDER)))

\* a day without tokens recorded with no bucket at all
day_menu_of_without_sentinel(meals) == order_day_menu(maybe_convert_to_no_school(meals))

\* the buckets of a day without an explicit closure, meals being
\* _parse_meals of its items
day_menu_of(meals) ==
  IF meals # <<>> THEN order_day_menu(maybe_convert_to_no_school(meals)) ELSE NoData

\* the buckets of a day, explicit being _explicit_no_school of its items
day_buckets(items, explicit) ==
  IF explicit # <<>> THEN << <<"No school", explicit>> >> ELSE day_menu_of(parse_meals(items))

\* the buckets _parse_week records for one day that has a date
parse_day(items) == day_buckets(items, explicit_no_school(items))

\* the test skipping a day only when it has no date field at all
has_date_not_none(day) == day.date.kind = "str"

\* the test  if not date_str: continue
has_date(day) == day.date.kind = "str" /\ day.date.s # <<>>

\* the day loop of _parse_week stops with an exception at this day
parse_day_raises(day) ==
  /\ has_date(day)
  /\ explicit_no_school(day.menu_items) = <<>>
  /\ parse_meals_raises(day.menu_items)

\* the day loop of _parse_week over days that do not raise
RECURSIVE parse_days(_, _)
parse_days(days, out) ==
  IF days = <<>> THEN out
  ELSE IF ~has_date(Head(days)) THEN parse_days(Tail(days), out)
  ELSE parse_days(Tail(days), DictSet(out, Head(days).date.s, parse_day(Head(days).menu_items)))

\* _parse_week(data) for data = {"days": days}: ok is FALSE when it raises
parse_week(days) ==
  IF \E i \in DOMAIN days : parse_day_raises(days[i])
  THEN [ok |-> FALSE, val |-> <<>>]
  ELSE [ok |-> TRUE, val |-> parse_days(days, <<>>)]

(***************************************************************************)
(* Date utilities (app/utils.py).  Day 0 is Monday 2024-01-01.             *)
(***************************************************************************)
\* date.weekday(): 0 = Monday .. 6 = Sunday
weekday(d) == d % 7

\* the lengths of the months of 2024
MonthLen == <<31, 29, 31, 30, 31, 30, 31, 31, 30, 31, 30, 31>>

\* <<month, day of month>> of day d of 2024, counting months from m
RECURSIVE MonthDayFrom(_, _)
MonthDayFrom(d, m) ==
  IF d < MonthLen[m] THEN <<m, d + 1>> ELSE MonthDayFrom(d - MonthLen[m], m + 1)

TwoDigits(n) == <<DigitChars[(n \div 10) + 1], DigitChars[(n % 10) + 1]>>

\* iso(d) = d.isoformat(): YYYY-MM-DD
iso(d) ==
  LET md == MonthDayFrom(d, 1)
  IN  <<"2", "0", "2", "4", "-">> \o TwoDigits(md[1]) \o <<"-">> \o TwoDigits(md[2])

\* the Sunday on or before d
week_start_sunday(d) == d - ((d + 1) % 7)

week_start(d) == d - weekday(d)

week_end(d) == week_start(d) + 4

\* list(daterange(start, end))
daterange(start, end) == [i \in 1..(end - start + 1) |-> start + i - 1]

\* the while loop of add_business_days: d the date reached, added the count
RECURSIVE business_walk(_, _, _)
business_walk(d, added, days_ahead) ==
  IF added < days_ahead
  THEN business_walk(d + 1, IF weekday(d + 1) < 5 THEN added + 1 ELSE added, days_ahead)
  ELSE d

\* add_business_days counting start itself when it is a business day
add_business_days_counting_start(start, days_ahead) ==
  IF days_ahead <= 0 THEN start ELSE business_walk(start - 1, 0, days_ahead)

add_business_days(start, days_ahead) ==
  IF days_ahead <= 0 THEN start ELSE business_walk(start, 0, days_ahead)

(***************************************************************************)
(* Inputs: menu items in the shapes the upstream uses, and week bodies     *)
(***************************************************************************)
\* {"food": {"name": "Breakfast"}}: a section header
I_Breakfast == Item(Food(Str(<<"B","r","e","a","k","f","a","s","t">>)), Absent, Absent, NoNested)

\* {"name": " LUNCH "}: a section header
I_Lunch == Item(NoFood, Str(<<" ","L","U","N","C","H"," ">>), Absent, NoNested)

\* {"food": {"name": "Pizza"}}
I_Pizza == Item(Food(Str(<<"P","i","z","z","a">>)), Absent, Absent, NoNested)

\* {"text": "Rice"}
I_Rice == Item(NoFood, Absent, Str(<<"R","i","c","e">>), NoNested)

\* {"menu_item": {"food": {"name": "No School - PD"}}}
I_NoSchoolPD == Item(NoFood, Absent, Absent, Nested(Food(Str(<<"N","o"," ","S","c","h","o","o","l"," ","-"," ","P","D">>))))

\* {"food": {"name": "no school"}}
I_no_school == Item(Food(Str(<<"n","o"," ","s","c","h","o","o","l">>)), Absent, Absent, NoNested)

\* {}: an object without any name field
I_Nameless == Item(NoFood, Absent, Absent, NoNested)

\* the bodies the upstream may return for the week of monday
WeekBodies(monday) ==
  { <<>>,
    << Day(Str(iso(monday)), <<I_Breakfast, I_Pizza, I_Lunch, I_Rice>>),
       Day(Str(iso(monday + 1)), <<I_Pizza, I_NoSchoolPD>>),
       Day(Str(iso(monday + 2)), <<>>),
       Day(Absent, <<I_Pizza>>),
       Day(Str(iso(monday + 5)), <<I_Rice>>) >>,
    << Day(Str(iso(monday + 4)), <<I_Breakfast, I_Rice>>),
       Day(Str(iso(monday + 7)), <<I_Breakfast, I_Pizza>>) >>,
    << Day(Str(iso(monday)), <<I_Pizza, NotADict>>) >> }

\* what one upstream request can end in: requests.get raises, raise_for_status
\* raises, resp.json() raises, or a JSON body arrives
Responses(monday) ==
  { [kind |-> k, days |-> <<>>] : k \in {"neterr", "status", "badjson"} }
    \cup { [kind |-> "ok", days |-> b] : b \in WeekBodies(monday) }

(***************************************************************************)
(* Bounds                                                                  *)
(***************************************************************************)
\* cache_ttl_seconds, scaled to clock ticks
ttl == 2

\* the dates callers pass are days 0 .. MaxDate
MaxDate == 7

\* the clock runs from 0 to MaxNow, one tick past the time to live
MaxNow == ttl + 1

\* calls made in one behaviour
MaxCalls == 3

\* the largest count passed to window_business_days
MaxCount == 4

\* the largest days_ahead passed to day_at_offset
MaxAhead == 2

\* the last date any call can reach from a date of 0 .. MaxDate
Horizon == MaxDate + 2 * (MaxCount + MaxAhead) + 2

Mondays == {week_start(d) : d \in 0..Horizon}

\* resp.json() for every body of the model and _parse_week of it, computed once
ParseTable == [b \in UNION {WeekBodies(m) : m \in Mondays} |-> parse_week(b)]

\* self._parse_week(resp.json())
parse_body(days) == ParseTable[days]

ResponseTable == [m \in Mondays |-> Responses(m)]

(***************************************************************************)
(* SimpleTTLCache.  The store is a function from the keys present to       *)
(* [ts, val]; time.time() is the integer clock now.                        *)
(***************************************************************************)
\* SimpleTTLCache.get(key) that misses an entry aged exactly the time to live
cache_get_expiring_early(st, key, t) ==
  IF key \in DOMAIN st
  THEN IF t - st[key].ts >= ttl
       THEN [found |-> FALSE, val |-> <<>>, store |-> [k \in DOMAIN st \ {key} |-> st[k]]]
       ELSE [found |-> TRUE, val |-> st[key].val, store |-> st]
  ELSE [found |-> FALSE, val |-> <<>>, store |-> st]

\* SimpleTTLCache.get(key) that also drops every other entry older than ttl
cache_get_purging(st, key, t) ==
  IF key \notin DOMAIN st
  THEN [found |-> FALSE, val |-> <<>>, store |-> [k \in {j \in DOMAIN st : t - st[j].ts <= ttl} |-> st[k]]]
  ELSE IF t - st[key].ts > ttl
  THEN [found |-> FALSE, val |-> <<>>, store |-> [k \in {j \in DOMAIN st : t - st[j].ts <= ttl} |-> st[k]]]
  ELSE [found |-> TRUE, val |-> st[key].val,
        store |-> [k \in {j \in DOMAIN st : t - st[j].ts <= ttl} |-> st[k]]]

\* SimpleTTLCache.get(key) at time t: found is FALSE for None
cache_get(st, key, t) ==
  IF key \notin DOMAIN st
  THEN [found |-> FALSE, val |-> <<>>, store |-> st]
  ELSE IF t - st[key].ts > ttl
  THEN [found |-> FALSE, val |-> <<>>, store |-> [k \in DOMAIN st \ {key} |-> st[k]]]
  ELSE [found |-> TRUE, val |-> st[key].val, store |-> st]

\* SimpleTTLCache.set(key, val) leaving an entry that exists alone
cache_set_if_absent(st, key, val, t) ==
  [k \in DOMAIN st \cup {key} |-> IF k \in DOMAIN st THEN st[k] ELSE [ts |-> t, val |-> val]]

\* SimpleTTLCache.set(key, val) at time t
cache_set(st, key, val, t) ==
  [k \in DOMAIN st \cup {key} |-> IF k = key THEN [ts |-> t, val |-> val] ELSE st[k]]

(***************************************************************************)
(* MenuFetcher.get_week                                                    *)
(***************************************************************************)
\* f"week:{monday.isoformat()}"
cache_key(monday) == <<"w", "e", "e", "k", ":">> \o iso(monday)

\* _build_url(d): the year/month/day path below the root URL
build_url(d) == <<2024>> \o MonthDayFrom(d, 1)

\* bool(cached): None and the empty dict are false
truthy(got) == got.found /\ got.val # <<>>

\* the result of get_week: the store afterwards, "ok" or "error", the value
\* returned, and the URLs requested
Fetched(st, status, val, urls) == [store |-> st, status |-> status, val |-> val, urls |-> urls]

\* get_week writing an empty entry when the fetch fails
fetch_week_caching_failure(st, t, monday, resp, parsed) ==
  IF resp.kind # "ok" \/ ~parsed.ok
  THEN Fetched(cache_set(st, cache_key(monday), <<>>, t), "error", <<>>, <<build_url(monday)>>)
  ELSE Fetched(cache_set(st, cache_key(monday), parsed.val, t), "ok", parsed.val,
               <<build_url(monday)>>)

\* get_week past the cache: the request, raise_for_status, resp.json(),
\* _parse_week and cache.set; parsed is _parse_week of the body of resp
fetch_week(st, t, monday, resp, parsed) ==
  IF resp.kind # "ok" \/ ~parsed.ok
  THEN Fetched(st, "error", <<>>, <<build_url(monday)>>)
  ELSE Fetched(cache_set(st, cache_key(monday), parsed.val, t), "ok", parsed.val,
               <<build_url(monday)>>)

\* get_week from  if cached: return cached  on, cached being cache.get
get_week_cached(t, monday, resp, cached) ==
  IF truthy(cached) THEN Fetched(cached.store, "ok", cached.val, <<>>)
  ELSE fetch_week(cached.store, t, monday, resp, parse_body(resp.days))

\* get_week(any_day) at time t on store st, resp being what the upstream
\* answers if it is asked
get_week(st, t, any_day, resp) ==
  get_week_cached(t, week_start(any_day), resp, cache_get(st, cache_key(week_start(any_day)), t))

(***************************************************************************)
(* MenuService                                                             *)
(***************************************************************************)
\* _day(raw, d) returning no entry for a date the week lacks
day_of_without_placeholder(raw, d) ==
  IF ~DictHas(raw, iso(d)) THEN <<>> ELSE << <<iso(d), DictGet(raw, iso(d))>> >>

\* _day(raw, d)
day_of(raw, d) ==
  IF ~DictHas(raw, iso(d)) THEN << <<iso(d), NoData>> >>
  ELSE << <<iso(d), DictGet(raw, iso(d))>> >>

\* _slice(raw, start, end)
RECURSIVE slice_from(_, _, _)
slice_from(raw, dates, out) ==
  IF dates = <<>> THEN out
  ELSE slice_from(raw, Tail(dates),
                  IF DictHas(raw, iso(Head(dates)))
                  THEN DictSet(out, iso(Head(dates)), DictGet(raw, iso(Head(dates))))
                  ELSE out)

slice(raw, start, end) == slice_from(raw, daterange(start, end), <<>>)

\* the result of a service call: the store afterwards, "ok" or "error", the
\* mapping returned, the URLs requested and the weeks get_week returned
Outcome(st, status, result, urls, weeks) ==
  [store |-> st, status |-> status, result |-> result, urls |-> urls, weeks |-> weeks]

\* week_menu(anchor) after its get_week call returned g
week_menu_of(g, anchor) ==
  IF g.status = "error" THEN Outcome(g.store, "error", <<>>, g.urls, <<>>)
  ELSE Outcome(g.store, "ok", slice(g.val, week_start(anchor), week_end(anchor)), g.urls,
               << <<week_start(anchor), g.val>> >>)

\* week_menu slicing through the Sunday of the week
week_menu_through_sunday(st, t, anchor, resp) ==
  LET g == get_week(st, t, anchor, resp)
  IN  IF g.status = "error" THEN Outcome(g.store, "error", <<>>, g.urls, <<>>)
      ELSE Outcome(g.store, "ok", slice(g.val, week_start(anchor), week_start(anchor) + 6),
                   g.urls, << <<week_start(anchor), g.val>> >>)

week_menu(st, t, anchor, resp) == week_menu_of(get_week(st, t, anchor, resp), anchor)

\* remainder_of_week(anchor) after its get_week call returned g
remainder_of_week_of(g, anchor) ==
  IF g.status = "error" THEN Outcome(g.store, "error", <<>>, g.urls, <<>>)
  ELSE Outcome(g.store, "ok", slice(g.val, anchor, week_end(anchor)), g.urls,
               << <<week_start(anchor), g.val>> >>)

\* remainder_of_week slicing from the Monday of the week
remainder_of_week_from_monday(st, t, anchor, resp) ==
  remainder_of_week_of(get_week(st, t, anchor, resp), week_start(anchor))

remainder_of_week(st, t, anchor, resp) == remainder_of_week_of(get_week(st, t, anchor, resp), anchor)

\* day_at_offset after its get_week call for the target date returned g
day_at_offset_of(g, target) ==
  IF g.status = "error" THEN Outcome(g.store, "error", <<>>, g.urls, <<>>)
  ELSE Outcome(g.store, "ok", day_of(g.val, target), g.urls, << <<week_start(target), g.val>> >>)

\* day_at_offset asking get_week for the week of base
day_at_offset_base_week(st, t, base, days_ahead, resp) ==
  day_at_offset_of(get_week(st, t, base, resp), add_business_days(base, days_ahead))

day_at_offset(st, t, base, days_ahead, resp) ==
  day_at_offset_of(get_week(st, t, add_business_days(base, days_ahead), resp),
                   add_business_days(base, days_ahead))

\* the date list of window_business_days stepping by calendar days
RECURSIVE window_dates_calendar(_, _)
window_dates_calendar(dates, count) ==
  IF Len(dates) < count
  THEN window_dates_calendar(Append(dates, dates[Len(dates)] + 1), count)
  ELSE dates

\* the date list of window_business_days
RECURSIVE window_dates(_, _)
window_dates(dates, count) ==
  IF Len(dates) < count
  THEN window_dates(Append(dates, add_business_days(dates[Len(dates)], 1)), count)
  ELSE dates

\* sorted(S) for a finite set of integers
RECURSIVE Sorted(_)
Sorted(S) == IF S = {} THEN <<>> ELSE <<Least(S)>> \o Sorted(S \ {Least(S)})

\* the fetch loop of window_business_days over the sorted Mondays; resps
\* maps a Monday to what the upstream answers for it
RECURSIVE window_fetch(_, _, _, _)
\* the fetch loop going on to the next Monday after a get_week that failed
window_update_skipping_failure(mondays, resps, t, acc, g) ==
  IF g.status = "error"
  THEN window_fetch(Tail(mondays), resps, t,
         Outcome(g.store, "ok", acc.result, acc.urls \o g.urls, acc.weeks))
  ELSE window_fetch(Tail(mondays), resps, t,
         Outcome(g.store, "ok", DictUpdate(acc.result, g.val),
                 acc.urls \o g.urls, Append(acc.weeks, <<Head(mondays), g.val>>)))

\* ... week_data.update(g) for the value g of get_week(monday), then the rest
window_update(mondays, resps, t, acc, g) ==
  IF g.status = "error"
  THEN Outcome(g.store, "error", <<>>, acc.urls \o g.urls, acc.weeks)
  ELSE window_fetch(Tail(mondays), resps, t,
         Outcome(g.store, "ok", DictUpdate(acc.result, g.val),
                 acc.urls \o g.urls, Append(acc.weeks, <<Head(mondays), g.val>>)))

window_fetch(mondays, resps, t, acc) ==
  IF mondays = <<>> THEN acc
  ELSE window_update(mondays, resps, t, acc,
                     get_week(acc.store, t, Head(mondays), resps[Head(mondays)]))

\* max(1, int(count))
clamp_count(count) == IF count < 1 THEN 1 ELSE count

\* the output loop of window_business_days
RECURSIVE window_out(_, _, _)
window_out(dates, week_data, out) ==
  IF dates = <<>> THEN out
  ELSE window_out(Tail(dates), week_data,
                  DictSet(out, iso(Head(dates)), DictGetOr(week_data, iso(Head(dates)), NoData)))

\* window_business_days after its fetch loop ended with f
window_result(dates, f) ==
  IF f.status = "error" THEN f
  ELSE Outcome(f.store, "ok", window_out(dates, f.result, <<>>), f.urls, f.weeks)

\* the Mondays of the weeks window_business_days(base, count) touches
WindowMondays(base, count) ==
  {week_start(d) : d \in Range(window_dates(<<base>>, clamp_count(count)))}

window_business_days(st, t, base, count, resps) ==
  window_result(window_dates(<<base>>, clamp_count(count)),
                window_fetch(Sorted(WindowMondays(base, count)), resps, t,
                             Outcome(st, "ok", <<>>, <<>>, <<>>)))

\* the request-handling threads that share the fetcher
Threads == {1, 2}

\* a thread outside get_week: pc is its position, monday the week asked for,
\* item what self._store.get returned, body the days of the response it
\* received, val the week parsed or returned, at the time of its cache.set,
\* seq the place of its return among the returns
Idle ==
  [pc |-> "idle", monday |-> 0, item |-> [found |-> FALSE, ts |-> 0, val |-> <<>>],
   body |-> <<>>, val |-> <<>>, at |-> 0, status |-> "ok", urls |-> <<>>, seq |-> 0]

NoThreads == [t \in Threads |-> Idle]

Dates == 0..MaxDate

NoCall == [op |-> "none", d |-> 0, n |-> 0, status |-> "ok", result |-> <<>>, urls |-> <<>>, weeks |-> <<>>]

NotRun == [ok |-> FALSE, val |-> <<"not run">>]

(***************************************************************************)
(* The fetcher: get_week calls and the passing of time                     *)
(***************************************************************************)
Init ==
  /\ store = <<>>
  /\ now = 0
  /\ calls = 0
  /\ last = NoCall
  /\ pin = <<>>
  /\ pout = NotRun
  /\ threads = NoThreads

Tick ==
  /\ now < MaxNow
  /\ now' = now + 1
  /\ UNCHANGED <<store, calls, last, pin, pout, threads>>

\* the state after a get_week call for d that returned g
RecordWeek(d, g) ==
  /\ store' = g.store
  /\ last' = [op |-> "get_week", d |-> d, n |-> 0, status |-> g.status,
              result |-> g.val, urls |-> g.urls, weeks |-> <<>>]
  /\ calls' = calls + 1
  /\ UNCHANGED <<now, pin, pout, threads>>

GetWeek ==
  /\ calls < MaxCalls
  /\ \E d \in Dates : \E resp \in ResponseTable[week_start(d)] :
       RecordWeek(d, get_week(store, now, d, resp))

Next == GetWeek \/ Tick

Spec == Init /\ [][Next]_vars

(***************************************************************************)
(* The service: the four views over the fetcher.  A behaviour starts with  *)
(* the cache as earlier get_week calls at time 0 left it, some time later, *)
(* and is followed to the end of its first service call.                   *)
(***************************************************************************)
\* the Mondays a service call with a date of 0 .. MaxDate can ask for
ServiceMondays ==
  UNION {WindowMondays(d, MaxCount) : d \in Dates}
    \cup {week_start(add_business_days(d, n)) : d \in Dates, n \in 0..MaxAhead}

\* the stores left by at most one get_week call per Monday of ms at time 0
RECURSIVE PrimedOver(_, _)
PrimedOver(stores, ms) ==
  IF ms = <<>> THEN stores
  ELSE PrimedOver(stores \cup {get_week(st, 0, Head(ms), r).store : st \in stores, r \in ResponseTable[Head(ms)]},
                  Tail(ms))

PrimedStores == PrimedOver({<<>>}, Sorted(ServiceMondays))

InitService ==
  /\ store \in PrimedStores
  /\ now \in 0..MaxNow
  /\ calls = 0
  /\ last = NoCall
  /\ pin = <<>>
  /\ pout = NotRun
  /\ threads = NoThreads

Record(op, d, n, o) ==
  /\ store' = o.store
  /\ last' = [op |-> op, d |-> d, n |-> n, status |-> o.status,
              result |-> o.result, urls |-> o.urls, weeks |-> o.weeks]
  /\ calls' = calls + 1
  /\ UNCHANGED <<now, pin, pout, threads>>

WeekMenu ==
  /\ calls = 0
  /\ \E d \in Dates : \E resp \in ResponseTable[week_start(d)] :
       Record("week_menu", d, 0, week_menu(store, now, d, resp))

RemainderOfWeek ==
  /\ calls = 0
  /\ \E d \in Dates : \E resp \in ResponseTable[week_start(d)] :
       Record("remainder_of_week", d, 0, remainder_of_week(store, now, d, resp))

DayAtOffset ==
  /\ calls = 0
  /\ \E d \in Dates : \E n \in (-1)..MaxAhead :
       \E resp \in ResponseTable[week_start(add_business_days(d, n))] :
         Record("day_at_offset", d, n, day_at_offset(store, now, d, n, resp))

\* one upstream answer for each Monday of a set
ResponseMaps(mondays) ==
  {r \in [mondays -> UNION {ResponseTable[m] : m \in mondays}] : \A m \in mondays : r[m] \in ResponseTable[m]}

WindowBusinessDays ==
  /\ calls = 0
  /\ \E d \in Dates : \E n \in (-1)..MaxCount :
       \E resps \in ResponseMaps(WindowMondays(d, n)) :
         Record("window_business_days", d, n, window_business_days(store, now, d, n, resps))

NextService == WeekMenu \/ RemainderOfWeek \/ DayAtOffset \/ WindowBusinessDays

SpecService == InitService /\ [][NextService]_vars

(***************************************************************************)
(* The window view followed by the offset views of the same base date: one *)
(* window_business_days(base, count) call, then day_at_offset(base, i) for *)
(* i = 0 .. count - 1, the upstream answering each week the same way       *)
(* throughout.  pin holds base, count and the upstream's answers; last the *)
(* window call; pout the mappings of the offset calls, one after another.  *)
(***************************************************************************)
InitViews ==
  /\ store = <<>>
  /\ now = 0
  /\ calls = 0
  /\ last = NoCall
  /\ \E d \in Dates : \E n \in 1..MaxCount : \E r \in ResponseMaps(WindowMondays(d, n)) :
       pin = [base |-> d, count |-> n, resps |-> r]
  /\ pout = NotRun
  /\ threads = NoThreads

\* the state after the window call returned o
RecordWindow(o) ==
  /\ store' = o.store
  /\ last' = [op |-> "window_business_days", d |-> pin.base, n |-> pin.count, status |-> o.status,
              result |-> o.result, urls |-> o.urls, weeks |-> o.weeks]
  /\ pout' = [ok |-> TRUE, val |-> <<>>]
  /\ calls' = 1
  /\ UNCHANGED <<now, pin, threads>>

WindowView ==
  /\ calls = 0
  /\ RecordWindow(window_business_days(store, now, pin.base, pin.count, pin.resps))

\* the state after the offset call returned o
RecordOffset(o) ==
  /\ store' = o.store
  /\ pout' = [ok |-> pout.ok /\ o.status = "ok", val |-> pout.val \o o.result]
  /\ calls' = calls + 1
  /\ UNCHANGED <<now, last, pin, threads>>

OffsetView ==
  /\ calls >= 1
  /\ calls <= pin.count
  /\ RecordOffset(day_at_offset(store, now, pin.base, calls - 1,
                                pin.resps[week_start(add_business_days(pin.base, calls - 1))]))

NextViews == WindowView \/ OffsetView \/ Tick

SpecViews == InitViews /\ [][NextViews]_vars

(***************************************************************************)
(* Name extraction alone: _food_name applied to one item of any shape      *)
(***************************************************************************)
\* a field that is absent, not a string, empty, blank, or the letter c
\* between blanks
FieldValues(c) == {Absent, NonStr, Str(<<>>), Str(<<" ">>), Str(<<" ", c, " ">>)}

FoodValues(c) == {NoFood, [kind |-> "other", name |-> Absent]} \cup {Food(v) : v \in FieldValues(c)}

NestedValues(c) == {NoNested, [kind |-> "other", food |-> NoFood]} \cup {Nested(f) : f \in FoodValues(c)}

ItemShapes ==
  {Item(f, n, t, m) : f \in FoodValues("F"), n \in FieldValues("N"),
                      t \in FieldValues("T"), m \in NestedValues("M")}

InitName ==
  /\ store = <<>>
  /\ now = 0
  /\ calls = 0
  /\ last = NoCall
  /\ pin \in ItemShapes
  /\ pout = NotRun
  /\ threads = NoThreads

FoodName ==
  /\ pout = NotRun
  /\ pout' = [ok |-> TRUE, val |-> food_name(pin)]
  /\ UNCHANGED <<store, now, calls, last, pin, threads>>

NextName == FoodName

SpecName == InitName /\ [][NextName]_vars

(***************************************************************************)
(* Parsing alone: _parse_week applied to one upstream body                 *)
(***************************************************************************)
\* the longest menu_items list of a day
MaxItems == 4

\* the longest menu_items list of a day in the closure heuristic's inputs
MaxClosureItems == 3

\* all lists of at most n elements of pool
RECURSIVE ListsUpTo(_, _)
ListsUpTo(pool, n) ==
  IF n = 0 THEN {<<>>}
  ELSE ListsUpTo(pool, n - 1)
         \cup {Append(l, x) : l \in {m \in ListsUpTo(pool, n - 1) : Len(m) = n - 1}, x \in pool}

ItemPool ==
  {I_Breakfast, I_Lunch, I_Pizza, I_Rice, I_NoSchoolPD, I_no_school, I_Nameless, NotADict}

DateValues == {Absent, Str(<<>>), Str(iso(0)), Str(iso(1))}

\* one dated day with any item list, or two days with any dates and short lists
ParseInputs ==
  {<<Day(Str(iso(0)), l)>> : l \in ListsUpTo(ItemPool, MaxItems)}
    \cup {<<Day(d1, l1), Day(d2, l2)>> : d1 \in DateValues, d2 \in DateValues,
                                         l1 \in ListsUpTo(ItemPool, 1), l2 \in ListsUpTo(ItemPool, 1)}

InitParse ==
  /\ store = <<>>
  /\ now = 0
  /\ calls = 0
  /\ last = NoCall
  /\ pin \in ParseInputs
  /\ pout = NotRun
  /\ threads = NoThreads

ParseWeek ==
  /\ pout = NotRun
  /\ pout' = parse_week(pin)
  /\ UNCHANGED <<store, now, calls, last, pin, threads>>

NextParse == ParseWeek

SpecParse == InitParse /\ [][NextParse]_vars

\* {"food": {"name": "Holiday"}}
I_Holiday == Item(Food(Str(<<"H","o","l","i","d","a","y">>)), Absent, Absent, NoNested)

\* an item whose name has n characters and no closure keyword
I_Filler(n) == Item(Food(Str([i \in 1..n |-> "x"])), Absent, Absent, NoNested)

ClosurePool ==
  {I_Breakfast, I_Lunch, I_Pizza, I_Holiday, I_Filler(ReasonMaxLen), I_Filler(ReasonMaxLen + 1)}

ClosureInputs == {<<Day(Str(iso(0)), l)>> : l \in ListsUpTo(ClosurePool, MaxClosureItems)}

InitClosure ==
  /\ store = <<>>
  /\ now = 0
  /\ calls = 0
  /\ last = NoCall
  /\ pin \in ClosureInputs
  /\ pout = NotRun
  /\ threads = NoThreads

SpecClosure == InitClosure /\ [][NextParse]_vars

(***************************************************************************)
(* get_week called from several threads.  Each access to the dict of the   *)
(* cache (get, pop, item assignment) is one step, as the interpreter runs  *)
(* it; the threads interleave between these steps, and the upstream        *)
(* request is a step of its own.                                           *)
(***************************************************************************)
\* self._store.get returning the entry of the longest week, whatever the key
dict_get_wrong_key(st, key) ==
  IF DOMAIN st = {} THEN [found |-> FALSE, ts |-> 0, val |-> <<>>]
  ELSE [found |-> TRUE,
        ts |-> st[CHOOSE k \in DOMAIN st : \A j \in DOMAIN st : Len(st[k].val) >= Len(st[j].val)].ts,
        val |-> st[CHOOSE k \in DOMAIN st : \A j \in DOMAIN st : Len(st[k].val) >= Len(st[j].val)].val]

\* self._store.get(key)
dict_get(st, key) ==
  IF key \in DOMAIN st THEN [found |-> TRUE, ts |-> st[key].ts, val |-> st[key].val]
  ELSE [found |-> FALSE, ts |-> 0, val |-> <<>>]

\* self._store.pop(key, None)
dict_pop(st, key) == [k \in DOMAIN st \ {key} |-> st[k]]

\* the place of the next return among the returns
next_seq == 1 + (CHOOSE n \in {threads[u].seq : u \in Threads} : \A u \in Threads : threads[u].seq <= n)

\* thread t returns from get_week
Returned(t, status, val, urls) ==
  threads' = [threads EXCEPT ![t] = [@ EXCEPT !.pc = "done", !.status = status, !.val = val,
                                              !.urls = urls, !.seq = next_seq]]

\* thread t moves on to position pc inside get_week
Goto(t, pc) == threads' = [threads EXCEPT ![t] = [@ EXCEPT !.pc = pc]]

\* thread t enters get_week(d): monday and cache_key are computed
Enter(t) ==
  /\ threads[t].pc \in {"idle", "done"}
  /\ calls < MaxCalls
  /\ \E d \in Dates :
       threads' = [threads EXCEPT ![t] = [Idle EXCEPT !.pc = "get", !.monday = week_start(d)]]
  /\ calls' = calls + 1
  /\ UNCHANGED <<store, now, last, pin, pout>>

\* SimpleTTLCache.get, first statement: item = self._store.get(key)
DictGetStep(t) ==
  /\ threads[t].pc = "get"
  /\ threads' = [threads EXCEPT ![t] = [@ EXCEPT !.pc = "check",
                   !.item = dict_get(store, cache_key(threads[t].monday))]]
  /\ UNCHANGED <<store, now, calls, last, pin, pout>>

\* the rest of SimpleTTLCache.get and  if cached: return cached
CacheCheck(t) ==
  /\ threads[t].pc = "check"
  /\ IF ~threads[t].item.found
     THEN Goto(t, "request") /\ UNCHANGED store
     ELSE IF now - threads[t].item.ts > ttl
     THEN Goto(t, "request") /\ store' = dict_pop(store, cache_key(threads[t].monday))
     ELSE IF threads[t].item.val # <<>>
     THEN Returned(t, "ok", threads[t].item.val, <<>>) /\ UNCHANGED store
     ELSE Goto(t, "request") /\ UNCHANGED store
  /\ UNCHANGED <<now, calls, last, pin, pout>>

\* thread t after the upstream answered resp, parsed being _parse_week of it
Received(t, resp, parsed) ==
  IF resp.kind # "ok" \/ ~parsed.ok
  THEN Returned(t, "error", <<>>, <<build_url(threads[t].monday)>>)
  ELSE threads' = [threads EXCEPT ![t] = [@ EXCEPT !.pc = "set", !.body = resp.days,
                     !.val = parsed.val, !.urls = <<build_url(threads[t].monday)>>]]

\* requests.get, raise_for_status, resp.json() and _parse_week
Request(t) ==
  /\ threads[t].pc = "request"
  /\ \E resp \in ResponseTable[threads[t].monday] : Received(t, resp, parse_body(resp.days))
  /\ UNCHANGED <<store, now, calls, last, pin, pout>>

\* self.cache.set(cache_key, parsed) and return parsed
CacheSetStep(t) ==
  /\ threads[t].pc = "set"
  /\ store' = cache_set(store, cache_key(threads[t].monday), threads[t].val, now)
  /\ threads' = [threads EXCEPT ![t] = [@ EXCEPT !.pc = "done", !.status = "ok", !.at = now,
                                                 !.seq = next_seq]]
  /\ UNCHANGED <<now, calls, last, pin, pout>>

Entering == \E t \in Threads : Enter(t)

DictGetting == \E t \in Threads : DictGetStep(t)

CacheChecking == \E t \in Threads : CacheCheck(t)

Requesting == \E t \in Threads : Request(t)

CacheSetting == \E t \in Threads : CacheSetStep(t)

NextThreads == Entering \/ DictGetting \/ CacheChecking \/ Requesting \/ CacheSetting \/ Tick

SpecThreads == Init /\ [][NextThreads]_vars

(***************************************************************************)
(* The cache alone: set and get calls for the keys of two weeks and the    *)
(* passing of time                                                         *)
(***************************************************************************)
\* cache.set(key, val) for the key of a Monday and an empty or a one-day week
CacheSetCall ==
  /\ calls < MaxCalls
  /\ \E m \in {0, 7} : \E val \in {<<>>, << <<iso(m), NoData>> >>} :
       /\ store' = cache_set(store, cache_key(m), val, now)
       /\ last' = [NoCall EXCEPT !.op = "cache_set", !.d = m, !.result = val]
  /\ calls' = calls + 1
  /\ UNCHANGED <<now, pin, pout, threads>>

\* cache.get(key) for the key of a Monday: status "ok" for a value, "error"
\* for None
CacheGetCall ==
  /\ calls < MaxCalls
  /\ \E m \in {0, 7} :
       /\ store' = cache_get(store, cache_key(m), now).store
       /\ last' = [NoCall EXCEPT !.op = "cache_get", !.d = m,
                     !.status = IF cache_get(store, cache_key(m), now).found THEN "ok" ELSE "error",
                     !.result = cache_get(store, cache_key(m), now).val]
  /\ calls' = calls + 1
  /\ UNCHANGED <<now, pin, pout, threads>>

NextCache == CacheSetCall \/ CacheGetCall \/ Tick

SpecCache == Init /\ [][NextCache]_vars

(***************************************************************************)
(* The cache under every operation that reaches it: set, get and get_week  *)
(* calls in any order, and the passing of time                             *)
(***************************************************************************)
NextLifetime == CacheSetCall \/ CacheGetCall \/ GetWeek \/ Tick

SpecLifetime == Init /\ [][NextLifetime]_vars

(***************************************************************************)
(* One day of header and food items: _parse_week applied to it, with the  *)
(* value its call of _parse_meals returns                                  *)
(***************************************************************************)
\* the most sections of a day
MaxSections == 3

\* {"food": {"name": "Deli Entree"}}: a section header
I_Deli == Item(Food(Str(<<"D","e","l","i"," ","E","n","t","r","e","e">>)), Absent, Absent, NoNested)

\* {"food": {"name": "Grab & Go"}}: a section header
I_GrabGo == Item(Food(Str(<<"G","r","a","b"," ","&"," ","G","o">>)), Absent, Absent, NoNested)

\* {"food": {"name": "Orange"}}
I_Orange == Item(Food(Str(<<"O","r","a","n","g","e">>)), Absent, Absent, NoNested)

\* {"food": {"name": "And"}}: a conjunction token
I_And == Item(Food(Str(<<"A","n","d">>)), Absent, Absent, NoNested)

\* {"food": {"name": "Breakfast Bar"}}: not a header
I_BreakfastBar ==
  Item(Food(Str(<<"B","r","e","a","k","f","a","s","t"," ","B","a","r">>)), Absent, Absent, NoNested)

\* a section of a day: one item, or a header followed by a food item
SectionPool ==
  {<<mi>> : mi \in {I_Breakfast, I_Lunch, I_GrabGo, I_Deli, I_Pizza, I_Orange, I_And, I_BreakfastBar}}
    \cup {<<h, I_Pizza>> : h \in {I_Breakfast, I_Lunch, I_GrabGo, I_Deli}}

RECURSIVE Concat(_)
Concat(ls) == IF ls = <<>> THEN <<>> ELSE Head(ls) \o Concat(Tail(ls))

MealInputs == {<<Day(Str(iso(0)), Concat(l))>> : l \in ListsUpTo(SectionPool, MaxSections)}

InitMeals ==
  /\ store = <<>>
  /\ now = 0
  /\ calls = 0
  /\ last = NoCall
  /\ pin \in MealInputs
  /\ pout = NotRun
  /\ threads = NoThreads

\* _parse_week on the day; last.result is what its _parse_meals call returns
ParseMeals ==
  /\ pout = NotRun
  /\ pout' = parse_week(pin)
  /\ last' = [NoCall EXCEPT !.op = "_parse_meals", !.result = parse_meals(pin[1].menu_items)]
  /\ UNCHANGED <<store, now, calls, pin, threads>>

NextMeals == ParseMeals

SpecMeals == InitMeals /\ [][NextMeals]_vars

(***************************************************************************)
(* Week helpers alone: week_start and week_end of a date, and the cache    *)
(* keys get_week derives for that date and for a second one                *)
(***************************************************************************)
\* two dates out of two weeks and a day
WeekInputs == {<<d, e>> : d \in 0..(2 * MaxDate), e \in 0..(2 * MaxDate)}

InitWeek ==
  /\ store = <<>>
  /\ now = 0
  /\ calls = 0
  /\ last = NoCall
  /\ pin \in WeekInputs
  /\ pout = NotRun
  /\ threads = NoThreads

WeekHelpers ==
  /\ pout = NotRun
  /\ pout' = [ok |-> TRUE,
              val |-> [start |-> week_start(pin[1]), end |-> week_end(pin[1]),
                       key |-> cache_key(week_start(pin[1])),
                       other |-> cache_key(week_start(pin[2]))]]
  /\ UNCHANGED <<store, now, calls, last, pin, threads>>

NextWeek == WeekHelpers

SpecWeek == InitWeek /\ [][NextWeek]_vars

(***************************************************************************)
(* Business-day arithmetic alone: add_business_days applied to one input   *)
(***************************************************************************)
\* a start date and a days_ahead, negative ones included
DayInputs == {<<d, n>> : d \in Dates, n \in (-2)..(MaxCount + 1)}

InitDays ==
  /\ store = <<>>
  /\ now = 0
  /\ calls = 0
  /\ last = NoCall
  /\ pin \in DayInputs
  /\ pout = NotRun
  /\ threads = NoThreads

AddBusinessDays ==
  /\ pout = NotRun
  /\ pout' = [ok |-> TRUE, val |-> add_business_days(pin[1], pin[2])]
  /\ UNCHANGED <<store, now, calls, last, pin, threads>>

NextDays == AddBusinessDays

SpecDays == InitDays /\ [][NextDays]_vars

(***************************************************************************)
(* Properties of the fetcher                                               *)
(***************************************************************************)
\* the step taken is a get_week call
GetWeekStep == calls' = calls + 1 /\ last'.op = "get_week"

\* the cache holds, under the key of d's week, an entry not older than ttl
FreshEntry(d) ==
  /\ cache_key(week_start(d)) \in DOMAIN store
  /\ now - store[cache_key(week_start(d))].ts <= ttl

\* C1: once a get_week call for a week has stored its result, whatever the
\* body parsed to (a week without days included), every get_week call for a
\* date of that week made while the entry is not older than the time to live
\* requests nothing from the upstream and returns the stored value.
C1_CacheIdempotence ==
  [][GetWeekStep /\ FreshEntry(last'.d)
       => /\ last'.urls = <<>>
          /\ last'.status = "ok"
          /\ last'.result = store[cache_key(week_start(last'.d))].val]_vars

\* C10: a get_week call that fails (the request raises, the status is not a
\* success, the body is not JSON or parsing raises) has requested exactly one
\* URL, has written no entry for its week (the old entry is kept or evicted)
\* and leaves every other key as it was; the get_week call for the same week
\* that follows a failed one requests the upstream again.
C10_FailureNotCached ==
  [][GetWeekStep =>
       LET key == cache_key(week_start(last'.d))
       IN  /\ last'.status = "error" =>
                /\ Len(last'.urls) = 1
                /\ key \in DOMAIN store' => (key \in DOMAIN store /\ store'[key] = store[key])
                /\ DOMAIN store' \ {key} = DOMAIN store \ {key}
                /\ \A k \in DOMAIN store \ {key} : store'[k] = store[k]
           /\ (/\ last.op = "get_week"
               /\ last.status = "error"
               /\ week_start(last.d) = week_start(last'.d))
                => last'.urls = <<build_url(week_start(last'.d))>>]_vars

\* a failed get_week call while the other week is cached, after a failed
\* call for the same week
C10_Witness ==
  /\ last.op = "get_week"
  /\ last.status = "error"
  /\ calls >= 2
  /\ DOMAIN store # {}
  /\ cache_key(week_start(last.d)) \notin DOMAIN store

(***************************************************************************)
(* Properties of name extraction                                           *)
(***************************************************************************)
\* the trimmed value of a field, empty when it is absent or not a string
Probe(v) == IF v.kind = "str" THEN Strip(v.s) ELSE <<>>

\* the four probes of an item in order: food.name, name, text,
\* menu_item.food.name
Probes(mi) ==
  << IF mi.food.kind = "dict" THEN Probe(mi.food.name) ELSE <<>>,
     Probe(mi.name),
     Probe(mi.text),
     IF mi.menu_item.kind = "dict" /\ mi.menu_item.food.kind = "dict"
     THEN Probe(mi.menu_item.food.name) ELSE <<>> >>

\* the first non-empty element of a sequence of texts, or the empty text
FirstNonEmpty(texts) ==
  IF \A i \in DOMAIN texts : texts[i] = <<>> THEN <<>>
  ELSE texts[Least({i \in DOMAIN texts : texts[i] # <<>>})]

\* C5: the display name of an item is the first non-empty trimmed value among
\* food.name, name, text and menu_item.food.name in this order; a probe that
\* is present but empty does not stop the later ones.
C5_FirstNonEmptyProbe ==
  pout # NotRun => pout.val = FirstNonEmpty(Probes(pin))

(***************************************************************************)
(* Properties of parsing                                                   *)
(***************************************************************************)
\* parse_week has been applied to pin
Parsed == pout # NotRun

\* an entry that is not an object, or an object without a display name
Malformed(mi) == ~mi.dict \/ FirstNonEmpty(Probes(mi)) = <<>>

\* the days with the malformed entries removed from their menu_items
WithoutMalformed(days) ==
  [i \in DOMAIN days |->
     [days[i] EXCEPT !.menu_items = SelectSeq(@, LAMBDA mi : ~Malformed(mi))]]

\* C2: a week in which some menu_items entries are malformed (no name field,
\* or not an object at all) parses without an error, to the week that the
\* same days without the malformed entries parse to.
C2_MalformedSkipped ==
  Parsed => /\ pout.ok
            /\ pout.val = parse_week(WithoutMalformed(pin)).val

\* the item is an object whose display name starts with "no school",
\* whatever the case of its letters
ClosureItem(mi) ==
  /\ mi.dict
  /\ Len(food_name(mi)) >= Len(S_no_school)
  /\ Lower(SubSeq(food_name(mi), 1, Len(S_no_school))) = S_no_school

HasClosure(items) == \E j \in DOMAIN items : ClosureItem(items[j])

\* the display name of the first closure item of a list that has one
FirstClosureName(items) ==
  food_name(items[Least({j \in DOMAIN items : ClosureItem(items[j])})])

\* day i has a date and no later day of the body has the same date
LastWithDate(days, i) ==
  /\ days[i].date.kind = "str"
  /\ days[i].date.s # <<>>
  /\ \A j \in (i + 1)..Len(days) : days[j].date # days[i].date

\* every entry of the day's menu_items is an object
AllObjects(day) == \A k \in DOMAIN day.menu_items : day.menu_items[k].dict

\* the buckets recorded for day i of pin
BucketsOf(i) == DictGet(pout.val, pin[i].date.s)

\* C3: a day whose items include one whose display name starts with
\* "no school" never makes the parse fail, whatever else its list holds, and
\* its buckets are exactly "No school" mapped to the display name of the
\* first such item.
C3_ExplicitClosureWins ==
  Parsed =>
    \A i \in DOMAIN pin :
      (LastWithDate(pin, i) /\ HasClosure(pin[i].menu_items)) =>
        /\ (\A j \in DOMAIN pin \ {i} : AllObjects(pin[j])) => pout.ok
        /\ pout.ok => BucketsOf(i) = << <<"No school", FirstClosureName(pin[i].menu_items)>> >>

\* a parsed day that starts with a header and an entry that is not an
\* object, followed by two closure items of different names
C3_Witness ==
  /\ Parsed
  /\ pout.ok
  /\ Len(pin) = 1
  /\ \E j \in DOMAIN pin[1].menu_items : ~pin[1].menu_items[j].dict
  /\ \E j, k \in DOMAIN pin[1].menu_items :
       /\ j < k
       /\ ClosureItem(pin[1].menu_items[j])
       /\ ClosureItem(pin[1].menu_items[k])
       /\ food_name(pin[1].menu_items[j]) # food_name(pin[1].menu_items[k])
  /\ ~ClosureItem(pin[1].menu_items[1])
  /\ DictHas(BucketsOf(1), "No school")

\* the text of a bucket of the meals, empty when the bucket is absent
TextOf(meals, bucket) == IF DictHas(meals, bucket) THEN DictGet(meals, bucket) ELSE <<>>

\* Lunch is the only bucket of the meals that has text
LunchOnly(meals) ==
  /\ TextOf(meals, "Lunch") # <<>>
  /\ \A b \in {"Breakfast", "Grab & Go", "Deli Entree"} : TextOf(meals, b) = <<>>

\* the text holds a closure keyword, or is at most 80 characters long
ReasonLike(text) ==
  \/ \E kw \in keywords : Contains(Lower(text), kw)
  \/ Len(text) <= 80

\* two mappings hold the same entries
SameEntries(d, e) == Len(d) = Len(e) /\ Range(d) = Range(e)

\* C4: for a day without an explicit closure item whose bucketing gives some
\* meals, the buckets are "No school" mapped to the Lunch text when Lunch is
\* the only bucket with text and the text holds a closure keyword or has at
\* most 80 characters; in every other case they are the meals unchanged.
C4_ImplicitClosure ==
  (Parsed /\ pout.ok) =>
    \A i \in DOMAIN pin :
      (/\ LastWithDate(pin, i)
       /\ ~HasClosure(pin[i].menu_items)
       /\ parse_meals(pin[i].menu_items) # <<>>) =>
        LET meals == parse_meals(pin[i].menu_items)
        IN  IF LunchOnly(meals) /\ ReasonLike(TextOf(meals, "Lunch"))
            THEN BucketsOf(i) = << <<"No school", TextOf(meals, "Lunch")>> >>
            ELSE SameEntries(BucketsOf(i), meals)

\* a Lunch text of more than 80 characters with a keyword became the reason
\* of a closure
C4_Witness ==
  /\ Parsed
  /\ pout.ok
  /\ ~HasClosure(pin[1].menu_items)
  /\ DictHas(BucketsOf(1), "No school")
  /\ Len(DictGet(BucketsOf(1), "No school")) > 80

\* the keys of a mapping as a set
KeySet(d) == {d[i][1] : i \in DOMAIN d}

\* C6: each day of a parsed week has either one or more of the buckets
\* Breakfast, Lunch, Grab & Go, Deli Entree and nothing else, or exactly one
\* bucket that is "No school" or "No data".
C6_DayBucketsShape ==
  (Parsed /\ pout.ok) =>
    \A n \in DOMAIN pout.val :
      \/ /\ KeySet(pout.val[n][2]) # {}
         /\ KeySet(pout.val[n][2]) \subseteq {"Breakfast", "Lunch", "Grab & Go", "Deli Entree"}
         /\ Len(pout.val[n][2]) = Cardinality(KeySet(pout.val[n][2]))
      \/ /\ Len(pout.val[n][2]) = 1
         /\ KeySet(pout.val[n][2]) \in {{"No school"}, {"No data"}}

\* a parsed week of two days, one closed by the heuristic and one with no
\* data
C6_Witness ==
  /\ Parsed
  /\ pout.ok
  /\ Len(pout.val) = 2
  /\ \E m, n \in DOMAIN pout.val :
       /\ KeySet(pout.val[m][2]) = {"No school"}
       /\ KeySet(pout.val[n][2]) = {"No data"}
  /\ \A i \in DOMAIN pin : ~HasClosure(pin[i].menu_items)

\* the trimmed lower-cased display name of an item
KeyOf(mi) == Lower(Strip(food_name(mi)))

\* the positions of the header items of a list of objects
HeaderItems(items) ==
  {j \in DOMAIN items : food_name(items[j]) # <<>> /\ IsHeader(KeyOf(items[j]))}

\* the positions of the food items: a name, and not a header
FoodItems(items) ==
  {j \in DOMAIN items : food_name(items[j]) # <<>> /\ ~IsHeader(KeyOf(items[j]))}

\* the greatest element of a non-empty set of integers
Greatest(S) == CHOOSE x \in S : \A y \in S : y <= x

\* the bucket of food item j: the canonical name of the last header before
\* it; without one, the bucket the first food item of the list selects
BucketAt(items, j) ==
  IF \E h \in HeaderItems(items) : h < j
  THEN HeaderOf(KeyOf(items[Greatest({h \in HeaderItems(items) : h < j})]))
  ELSE IF Contains(KeyOf(items[Least(FoodItems(items))]), S_breakfast) THEN "Breakfast"
  ELSE "Lunch"

\* the token of food item j: its name, a conjunction in lower case
TokenAt(items, j) ==
  IF KeyOf(items[j]) \in {S_and, S_or, S_with} THEN KeyOf(items[j]) ELSE food_name(items[j])

\* the tokens of a bucket: its food items in scan order
ExpectedTokens(items, b) ==
  LET at == SelectSeq([j \in DOMAIN items |-> j],
                      LAMBDA j : j \in FoodItems(items) /\ BucketAt(items, j) = b)
  IN  [n \in DOMAIN at |-> TokenAt(items, at[n])]

\* the buckets that have tokens, each with its tokens joined and cleaned
ExpectedTexts(items) ==
  {<<b, conjunction_junction(Join(ExpectedTokens(items, b), <<",", " ">>))>> :
     b \in {c \in Range(ORDER) : ExpectedTokens(items, c) # <<>>}}

\* C7: in a day of objects without a closure item, a header item switches
\* the bucket and is not a token itself, and every other named item is a
\* token, in scan order, of the bucket of the last header before it: the
\* day's buckets are these token lists joined, "No data" when there is no
\* token, or the closure that the Lunch text alone was turned into.
C7_BucketStateMachine ==
  (Parsed /\ pout.ok) =>
    \A i \in DOMAIN pin :
      (/\ LastWithDate(pin, i)
       /\ AllObjects(pin[i])
       /\ ~HasClosure(pin[i].menu_items)) =>
        CASE DictHas(BucketsOf(i), "No data") -> ExpectedTexts(pin[i].menu_items) = {}
          [] DictHas(BucketsOf(i), "No school") ->
               ExpectedTexts(pin[i].menu_items) = {<<"Lunch", DictGet(BucketsOf(i), "No school")>>}
          [] OTHER -> /\ Range(BucketsOf(i)) = ExpectedTexts(pin[i].menu_items)
                      /\ Len(BucketsOf(i)) = Cardinality(ExpectedTexts(pin[i].menu_items))

\* a parsed day with a food item under each of two headers
C7_Witness ==
  /\ Parsed
  /\ pout.ok
  /\ Len(pin) = 1
  /\ AllObjects(pin[1])
  /\ Cardinality(HeaderItems(pin[1].menu_items)) = 2
  /\ Cardinality(FoodItems(pin[1].menu_items)) = 2
  /\ KeySet(BucketsOf(1)) = {"Breakfast", "Lunch"}

\* C21: a day that has a date, whose entries are objects, without a closure
\* item and without any food item (no items, only nameless items, only
\* header items) is recorded as exactly "No data": "Menu not available".
C21_NoDataSentinel ==
  Parsed =>
    \A i \in DOMAIN pin :
      (/\ LastWithDate(pin, i)
       /\ AllObjects(pin[i])
       /\ ~HasClosure(pin[i].menu_items)
       /\ FoodItems(pin[i].menu_items) = {}) =>
        /\ (\A j \in DOMAIN pin \ {i} : AllObjects(pin[j])) => pout.ok
        /\ pout.ok =>
             BucketsOf(i) = << <<"No data", <<"M","e","n","u"," ","n","o","t"," ",
                                              "a","v","a","i","l","a","b","l","e">> >> >>

\* a day of two headers with a nameless object between them
C21_Witness ==
  /\ Parsed
  /\ pout.ok
  /\ Len(pin) = 1
  /\ Len(pin[1].menu_items) = 3
  /\ Cardinality(HeaderItems(pin[1].menu_items)) = 2
  /\ food_name(pin[1].menu_items[2]) = <<>>
  /\ KeySet(BucketsOf(1)) = {"No data"}

\* the dates of the days that carry a non-empty date field
DatesCarried(days) ==
  {days[i].date.s : i \in {j \in DOMAIN days : days[j].date.kind = "str" /\ days[j].date.s # <<>>}}

\* C22: the keys of a parsed week are exactly the dates of the days that
\* carry a non-empty date field, each once; a day whose date is absent or
\* empty gives no key and no entry, and every dated day has the entry it
\* would have as the only day of the body.
C22_WeekMenuKeys ==
  (Parsed /\ pout.ok) =>
    /\ KeySet(pout.val) = DatesCarried(pin)
    /\ Len(pout.val) = Cardinality(DatesCarried(pin))
    /\ \A i \in DOMAIN pin :
         LastWithDate(pin, i) => BucketsOf(i) = parse_week(<<pin[i]>>).val[1][2]

\* a day with an empty date and an item, then a dated day: one key
C22_Witness ==
  /\ Parsed
  /\ pout.ok
  /\ Len(pin) = 2
  /\ pin[1].date = Str(<<>>)
  /\ pin[1].menu_items # <<>>
  /\ pin[2].date = Str(iso(0))
  /\ DictKeys(pout.val) = <<iso(0)>>

(***************************************************************************)
(* Properties of _parse_meals and of the order of a day's buckets          *)
(***************************************************************************)
\* _parse_week has run on the day and its _parse_meals call has returned
MealsParsed == last.op = "_parse_meals" /\ pout # NotRun

\* the items of the day
MealItems == pin[1].menu_items

\* the token is one of the conjunction words
IsConjunction(tok) == tok \in {S_and, S_or, S_with}

\* C16: in the display string of a bucket, two adjacent ordinary food tokens
\* keep their ", " separator, also when a name begins or ends with the
\* letters of a conjunction, and a conjunction token between two food tokens
\* reads "A <conjunction> B" without commas.
C16_CommasAroundConjunctions ==
  MealsParsed =>
    \A b \in KeySet(last.result) :
      LET toks == ExpectedTokens(MealItems, b)
          text == DictGet(last.result, b)
      IN  /\ \A n \in 1..(Len(toks) - 1) :
               (~IsConjunction(toks[n]) /\ ~IsConjunction(toks[n + 1])) =>
                 Contains(text, toks[n] \o <<",", " ">> \o toks[n + 1])
          /\ \A n \in 2..(Len(toks) - 1) :
               (/\ IsConjunction(toks[n])
                /\ ~IsConjunction(toks[n - 1])
                /\ ~IsConjunction(toks[n + 1])) =>
                 Contains(text, toks[n - 1] \o <<" ">> \o toks[n] \o <<" ">> \o toks[n + 1])

\* the positions of the items that have a display name
NamedItems(items) == HeaderItems(items) \cup FoodItems(items)

\* the positions, in scan order, of the food items before any header
BeforeHeaders(items) ==
  SelectSeq([j \in DOMAIN items |-> j],
            LAMBDA j : j \in FoodItems(items) /\ \A h \in HeaderItems(items) : j < h)

\* the positions, in scan order, of the food items whose last header is one
\* of bucket b
UnderHeader(items, b) ==
  SelectSeq([j \in DOMAIN items |-> j],
            LAMBDA j : /\ j \in FoodItems(items)
                       /\ \E h \in HeaderItems(items) : h < j
                       /\ HeaderOf(KeyOf(items[Greatest({h \in HeaderItems(items) : h < j})])) = b)

\* the bucket the first named item selects when it is not a header
DefaultOf(items) ==
  IF Contains(Lower(Strip(food_name(items[Least(NamedItems(items))]))), S_breakfast)
  THEN "Breakfast" ELSE "Lunch"

\* the first named item of the day is a food item
StartsWithFood(items) ==
  NamedItems(items) # {} /\ Least(NamedItems(items)) \in FoodItems(items)

\* C19: when the first named item of a day is not a header, the bucket is
\* Breakfast if the item's lower-cased name contains "breakfast" and Lunch
\* otherwise; that item and every food item up to the first header are the
\* first tokens of that bucket, in their order, and no food item before the
\* first header goes to any other bucket.
C19_DefaultBucket ==
  (MealsParsed /\ StartsWithFood(MealItems)) =>
    LET at == BeforeHeaders(MealItems) \o UnderHeader(MealItems, DefaultOf(MealItems))
    IN  /\ DictHas(last.result, DefaultOf(MealItems))
        /\ DictGet(last.result, DefaultOf(MealItems))
             = conjunction_junction(Join([n \in DOMAIN at |-> TokenAt(MealItems, at[n])], <<",", " ">>))
        /\ \A b \in KeySet(last.result) \ {DefaultOf(MealItems)} :
             UnderHeader(MealItems, b) # <<>>

\* "Breakfast Bar", "Pizza", the header "Lunch", "Pizza": the first two are
\* the Breakfast bucket
C19_Witness ==
  /\ MealsParsed
  /\ MealItems = <<I_BreakfastBar, I_Pizza, I_Lunch, I_Pizza>>
  /\ DictKeys(last.result) = <<"Breakfast", "Lunch">>
  /\ DictGet(last.result, "Breakfast") = food_name(I_BreakfastBar) \o <<",", " ">> \o food_name(I_Pizza)
  /\ DictGet(last.result, "Lunch") = food_name(I_Pizza)

\* the place of a canonical bucket name in the canonical order
PlaceOf(k) == CHOOSE n \in DOMAIN ORDER : ORDER[n] = k

\* C18: in every day of a parsed week the buckets among Breakfast, Lunch,
\* Grab & Go, Deli Entree are in that relative order, whatever the order of
\* their headers in the items, and come before any other key; headers seen
\* in the order Deli Entree, Breakfast, Lunch give Breakfast, Lunch, Deli
\* Entree.
C18_CanonicalOrder ==
  (MealsParsed /\ pout.ok) =>
    /\ \A i \in DOMAIN pin :
         \A a \in DOMAIN BucketsOf(i) : \A b \in DOMAIN BucketsOf(i) :
           (a < b /\ BucketsOf(i)[b][1] \in Range(ORDER)) =>
             /\ BucketsOf(i)[a][1] \in Range(ORDER)
             /\ PlaceOf(BucketsOf(i)[a][1]) < PlaceOf(BucketsOf(i)[b][1])
    /\ DictKeys(last.result) = <<"Deli Entree", "Breakfast", "Lunch">> =>
         DictKeys(BucketsOf(1)) = <<"Breakfast", "Lunch", "Deli Entree">>

\* a day whose headers come in the order Deli Entree, Breakfast, Lunch, each
\* followed by a food item
C18_Witness ==
  /\ MealsParsed
  /\ pout.ok
  /\ MealItems = <<I_Deli, I_Pizza, I_Breakfast, I_Pizza, I_Lunch, I_Pizza>>
  /\ DictKeys(last.result) = <<"Deli Entree", "Breakfast", "Lunch">>
  /\ DictKeys(BucketsOf(1)) = <<"Breakfast", "Lunch", "Deli Entree">>

(***************************************************************************)
(* Properties of the service                                               *)
(***************************************************************************)
\* the call made was window_business_days and it returned
WindowReturned == last.op = "window_business_days" /\ last.status = "ok"

\* the first Monday-Friday date after d
NextBusinessDay(d) == Least({e \in (d + 1)..(d + 3) : e % 7 < 5})

\* the i-th date of the window that starts at base
RECURSIVE WindowDate(_, _)
WindowDate(base, i) == IF i = 1 THEN base ELSE NextBusinessDay(WindowDate(base, i - 1))

\* the buckets of the key in the weeks fetched: those of the last week that
\* has the key, or the "No data" entry
FromWeeks(weeks, key) ==
  IF \A w \in DOMAIN weeks : ~DictHas(weeks[w][2], key) THEN NoData
  ELSE DictGet(weeks[Greatest({w \in DOMAIN weeks : DictHas(weeks[w][2], key)})][2], key)

\* C8: window_business_days(base, count) returns max(1, count) entries; the
\* first key is base, each following key is the next business day after the
\* key before it, and each key maps to the buckets of its date in the weeks
\* fetched or to the "No data" entry; Friday with count 3 gives Friday,
\* Monday, Tuesday out of the weeks of the two Mondays.
C8_WindowBusinessDays ==
  WindowReturned =>
    /\ Len(last.result) = (IF last.n < 1 THEN 1 ELSE last.n)
    /\ \A i \in DOMAIN last.result :
         /\ last.result[i][1] = iso(WindowDate(last.d, i))
         /\ last.result[i][2] = FromWeeks(last.weeks, last.result[i][1])
    /\ \A w \in DOMAIN last.weeks :
         /\ cache_key(last.weeks[w][1]) \in DOMAIN store
         /\ store[cache_key(last.weeks[w][1])].val = last.weeks[w][2]
    /\ (last.d = 4 /\ last.n = 3) =>
         /\ DictKeys(last.result) = <<iso(4), iso(7), iso(8)>>
         /\ [w \in DOMAIN last.weeks |-> last.weeks[w][1]] = <<0, 7>>

\* Friday with count 3, both weeks requested from the upstream, the Monday
\* present in both with different buckets and taken from the second
C8_Witness ==
  /\ WindowReturned
  /\ last.d = 4
  /\ last.n = 3
  /\ Len(last.urls) = 2
  /\ Len(last.result) = 3
  /\ last.result[1][2] # NoData
  /\ DictHas(last.weeks[1][2], iso(7))
  /\ DictHas(last.weeks[2][2], iso(7))
  /\ DictGet(last.weeks[1][2], iso(7)) # DictGet(last.weeks[2][2], iso(7))
  /\ last.result[2][2] = DictGet(last.weeks[2][2], iso(7))

\* the date day_at_offset(base, n) is about: base for n <= 0, else the n-th
\* business day after base
TargetDate(base, n) == IF n <= 0 THEN base ELSE WindowDate(base, n + 1)

\* C14: a day_at_offset(base, daysAhead) call whose weekly fetch succeeded
\* returns one entry; its key is the date of the target, the week fetched is
\* the one of the target's Monday, and the value is the target's buckets in
\* that week or the "No data" entry when the week lacks the date; the call
\* fails only when its one upstream request failed.
C14_DayAtOffset ==
  last.op = "day_at_offset" =>
    IF last.status = "ok"
    THEN /\ Len(last.result) = 1
         /\ last.result[1][1] = iso(TargetDate(last.d, last.n))
         /\ Len(last.weeks) = 1
         /\ last.weeks[1][1] = TargetDate(last.d, last.n) - (TargetDate(last.d, last.n) % 7)
         /\ cache_key(last.weeks[1][1]) \in DOMAIN store
         /\ store[cache_key(last.weeks[1][1])].val = last.weeks[1][2]
         /\ last.result[1][2] = FromWeeks(last.weeks, last.result[1][1])
    ELSE Len(last.urls) = 1

\* Friday with daysAhead 1: the Monday of the next week, which the week
\* fetched for that Monday does not hold
C14_Witness ==
  /\ last.op = "day_at_offset"
  /\ last.status = "ok"
  /\ last.d = 4
  /\ last.n = 1
  /\ last.urls # <<>>
  /\ last.weeks[1][1] = 7
  /\ last.weeks[1][2] # <<>>
  /\ last.result = << <<iso(7), NoData>> >>

\* the week helpers have run on the two dates
WeeksComputed == pin \in WeekInputs /\ pout # NotRun

\* C24: week_start(d) is a Monday with week_start(d) <= d < week_start(d) + 7,
\* week_end(d) is four days later, the Friday of that week, and two dates of
\* one Monday-Sunday week have the same week_start and so the same cache key.
C24_WeekStart ==
  WeeksComputed =>
    /\ pout.val.start % 7 = 0
    /\ pout.val.start <= pin[1]
    /\ pin[1] < pout.val.start + 7
    /\ pout.val.end = pout.val.start + 4
    /\ pout.val.end % 7 = 4
    /\ (pin[1] \div 7 = pin[2] \div 7) => pout.val.key = pout.val.other

\* the Sunday of the second week and the Tuesday of the same week
C24_Witness ==
  /\ WeeksComputed
  /\ pin = <<13, 8>>
  /\ pout.val.start = 7
  /\ pout.val.end = 11
  /\ pout.val.key = pout.val.other
  /\ pout.val.key = <<"w", "e", "e", "k", ":">> \o iso(7)

\* add_business_days has run on the input start, days_ahead
DaysAdded == pin \in DayInputs /\ pout # NotRun

\* C17: add_business_days(start, n) returns start for n <= 0; for n > 0 it
\* returns a Monday-Friday date after start such that exactly n Monday-Friday
\* dates lie after start and up to the result, so start is never counted.
C17_AddBusinessDays ==
  DaysAdded =>
    /\ pout.ok
    /\ IF pin[2] <= 0 THEN pout.val = pin[1]
       ELSE /\ pout.val % 7 < 5
            /\ pout.val > pin[1]
            /\ Cardinality({e \in (pin[1] + 1)..pout.val : e % 7 < 5}) = pin[2]

\* Thursday and four business days: Friday, Monday, Tuesday, Wednesday
C17_Witness ==
  /\ DaysAdded
  /\ pin = <<3, 4>>
  /\ pout.val = 9

\* the entries of a week for the dates from .. to that it holds, in ascending
\* order of date
PresentEntries(week, from, to) ==
  LET present == SelectSeq([i \in 1..(to - from + 1) |-> from + i - 1],
                           LAMBDA e : DictHas(week, iso(e)))
  IN  [i \in DOMAIN present |-> <<iso(present[i]), DictGet(week, iso(present[i]))>>]

\* the Monday of the week of a date
MondayOf(d) == d - (d % 7)

\* a call of the operation returned a mapping
SliceReturned(op) == last.op = op /\ last.status = "ok"

\* the one week a slicing call fetched is the week of its anchor, as cached
AnchorWeekFetched ==
  /\ Len(last.weeks) = 1
  /\ last.weeks[1][1] = MondayOf(last.d)
  /\ cache_key(MondayOf(last.d)) \in DOMAIN store
  /\ store[cache_key(MondayOf(last.d))].val = last.weeks[1][2]

\* C15: remainder_of_week(anchor) returns, in ascending order, exactly the
\* dates from anchor to the Friday of anchor's week that the fetched week
\* holds, each with its fetched buckets; a Saturday or Sunday anchor is
\* treated the same way, which leaves nothing; no date before anchor and no
\* placeholder appears.
C15_RemainderOfWeek ==
  SliceReturned("remainder_of_week") =>
    /\ AnchorWeekFetched
    /\ last.result = PresentEntries(last.weeks[1][2], last.d, MondayOf(last.d) + 4)
    /\ \A i \in DOMAIN last.result :
         /\ \E e \in last.d..(MondayOf(last.d) + 4) : last.result[i][1] = iso(e)
         /\ DictHas(last.weeks[1][2], last.result[i][1])
    /\ last.d % 7 >= 5 => last.result = <<>>

\* a Tuesday anchor in a week that holds the Monday, the Tuesday, the
\* Wednesday and the Saturday: the Tuesday and the Wednesday are returned
C15_Witness ==
  /\ SliceReturned("remainder_of_week")
  /\ last.d = 1
  /\ DictHas(last.weeks[1][2], iso(0))
  /\ DictHas(last.weeks[1][2], iso(5))
  /\ DictKeys(last.result) = <<iso(1), iso(2)>>

\* C20: week_menu(anchor) returns, in ascending order, exactly the dates from
\* the Monday to the Friday of anchor's week that the fetched week holds,
\* each with its fetched buckets, for weekday and weekend anchors alike;
\* dates the upstream omitted are absent and Saturday or Sunday entries of
\* the upstream are left out.
C20_WeekMenu ==
  SliceReturned("week_menu") =>
    /\ AnchorWeekFetched
    /\ last.result = PresentEntries(last.weeks[1][2], MondayOf(last.d), MondayOf(last.d) + 4)
    /\ \A e \in MondayOf(last.d)..(MondayOf(last.d) + 6) :
         DictHas(last.result, iso(e)) <=> (e % 7 < 5 /\ DictHas(last.weeks[1][2], iso(e)))

\* a Sunday anchor in a week whose upstream body holds Monday to Wednesday
\* and the Saturday, but neither Thursday nor Friday
C20_Witness ==
  /\ SliceReturned("week_menu")
  /\ last.d = 6
  /\ last.urls # <<>>
  /\ DictHas(last.weeks[1][2], iso(5))
  /\ ~DictHas(last.weeks[1][2], iso(3))
  /\ DictKeys(last.result) = <<iso(0), iso(1), iso(2)>>

\* the Mondays of the weeks of the dates of the window of the call
TouchedMondays ==
  {MondayOf(WindowDate(last.d, i)) : i \in 1..(IF last.n < 1 THEN 1 ELSE last.n)}

\* the Mondays of the weeks get_week returned in the call, in call order
FetchedMondays == [w \in DOMAIN last.weeks |-> last.weeks[w][1]]

\* C26: a window_business_days call asks get_week once for each Monday of the
\* weeks its dates touch, in ascending order of Monday, each get_week
\* requesting the upstream at most once; when one of them fails the call
\* fails at that Monday without any mapping, the Mondays before it having
\* been fetched and their weeks being in the cache.
C26_WindowFetchesEachWeekOnce ==
  last.op = "window_business_days" =>
    /\ \A v, w \in DOMAIN last.weeks : v < w => last.weeks[v][1] < last.weeks[w][1]
    /\ \A m \in TouchedMondays :
         m \in Range(FetchedMondays)
           <=> Cardinality({x \in TouchedMondays : x < m}) < Len(last.weeks)
    /\ Range(FetchedMondays) \subseteq TouchedMondays
    /\ \A w \in DOMAIN last.weeks :
         /\ cache_key(last.weeks[w][1]) \in DOMAIN store
         /\ store[cache_key(last.weeks[w][1])].val = last.weeks[w][2]
    /\ \A u, v \in DOMAIN last.urls :
         u < v => \E a, b \in TouchedMondays :
                    a < b /\ last.urls[u] = build_url(a) /\ last.urls[v] = build_url(b)
    /\ \A u \in DOMAIN last.urls : \E a \in TouchedMondays : last.urls[u] = build_url(a)
    /\ IF last.status = "ok"
       THEN Len(last.weeks) = Cardinality(TouchedMondays)
       ELSE /\ last.result = <<>>
            /\ Len(last.weeks) < Cardinality(TouchedMondays)
            /\ last.urls # <<>>
            /\ \E a \in TouchedMondays :
                 /\ Cardinality({x \in TouchedMondays : x < a}) = Len(last.weeks)
                 /\ last.urls[Len(last.urls)] = build_url(a)

\* Friday with count 3: the first week was requested and is cached, the
\* request for the second failed and the call returned no mapping
C26_Witness ==
  /\ last.op = "window_business_days"
  /\ last.status = "error"
  /\ last.d = 4
  /\ last.n = 3
  /\ last.result = <<>>
  /\ last.urls = <<build_url(0), build_url(7)>>
  /\ FetchedMondays = <<0>>
  /\ cache_key(0) \in DOMAIN store
  /\ cache_key(7) \notin DOMAIN store

\* C9: every key of the mapping window_business_days returns is a date from
\* Monday to Friday.
C9_NoWeekendInWindow ==
  WindowReturned =>
    \A i \in DOMAIN last.result :
      \E d \in 0..Horizon : d % 7 < 5 /\ last.result[i][1] = iso(d)

(***************************************************************************)
(* Properties of get_week under concurrent calls                           *)
(***************************************************************************)
\* the weeks that the upstream bodies for a Monday parse to
ParsedWeekTable ==
  [m \in Mondays |-> {parse_body(b).val : b \in {c \in WeekBodies(m) : parse_body(c).ok}}]

ParsedWeeks(monday) == ParsedWeekTable[monday]

\* thread t has returned a week from get_week
ReturnedOk(t) == threads[t].pc = "done" /\ threads[t].status = "ok"

\* C11: under every interleaving of the threads, each cache entry is a
\* (timestamp, week) pair under the key of a Monday, its week parsed from one
\* upstream body of that Monday and its timestamp not in the future, and every
\* call that returns a week returns one parsed from one upstream body of the
\* Monday of the week it asked for.
C11_CacheNeverCorrupted ==
  /\ \A key \in DOMAIN store :
       \E m \in Mondays :
         /\ key = cache_key(m)
         /\ DOMAIN store[key] = {"ts", "val"}
         /\ store[key].ts \in 0..now
         /\ store[key].val \in ParsedWeeks(m)
  /\ \A t \in Threads :
       ReturnedOk(t) => threads[t].val \in ParsedWeeks(threads[t].monday)

\* one thread has returned a week from the cache; the other then found the
\* entry expired, evicted it, and is about to write a different week that it
\* fetched for the same Monday
C11_Witness ==
  \E t, u \in Threads :
    /\ ReturnedOk(t)
    /\ threads[t].urls = <<>>
    /\ threads[t].val # <<>>
    /\ threads[u].pc = "set"
    /\ threads[u].item.found
    /\ threads[u].monday = threads[t].monday
    /\ threads[u].val # threads[t].val
    /\ cache_key(threads[u].monday) \notin DOMAIN store

\* threads t and u have both returned a week they requested from the
\* upstream for the same Monday
BothFetched(t, u) ==
  /\ t # u
  /\ ReturnedOk(t)
  /\ ReturnedOk(u)
  /\ threads[t].monday = threads[u].monday
  /\ threads[t].urls # <<>>
  /\ threads[u].urls # <<>>

\* C12: when two calls for the same week have both requested the upstream and
\* both returned, the cache entry of the week holds the week and the time of
\* the call that stored last, and each call has returned the week parsed from
\* the response it received itself.
C12_LastWriteWins ==
  \A t, u \in Threads :
    (BothFetched(t, u) /\ threads[t].seq < threads[u].seq) =>
      /\ cache_key(threads[u].monday) \in DOMAIN store
      /\ store[cache_key(threads[u].monday)] = [ts |-> threads[u].at, val |-> threads[u].val]
      /\ threads[t].val = parse_body(threads[t].body).val
      /\ threads[u].val = parse_body(threads[u].body).val

\* two calls that both missed the same uncached week, both requested it and
\* received different weeks at different times
C12_Witness ==
  /\ calls = 2
  /\ \E t, u \in Threads :
       /\ BothFetched(t, u)
       /\ threads[t].seq < threads[u].seq
       /\ ~threads[t].item.found
       /\ ~threads[u].item.found
       /\ threads[t].val # threads[u].val
       /\ threads[t].at < threads[u].at

(***************************************************************************)
(* Properties of the cache                                                 *)
(***************************************************************************)
\* the step taken is a cache.get call
CacheGetStep == calls' = calls + 1 /\ last'.op = "cache_get"

\* C13: get(key) returns the stored value, leaving the store as it is, exactly
\* when an entry exists and now - insertedAt <= ttl; for an older entry it
\* returns a miss and removes the entry, the other entries staying; without
\* an entry it returns a miss and leaves the store as it is.
C13_TTLCacheGet ==
  [][CacheGetStep =>
       LET key == cache_key(last'.d)
       IN  IF key \in DOMAIN store /\ now - store[key].ts <= ttl
           THEN /\ last'.status = "ok"
                /\ last'.result = store[key].val
                /\ store' = store
           ELSE IF key \in DOMAIN store
           THEN /\ last'.status = "error"
                /\ DOMAIN store' = DOMAIN store \ {key}
                /\ \A k \in DOMAIN store' : store'[k] = store[k]
           ELSE /\ last'.status = "error"
                /\ store' = store]_vars

\* a get that returned the empty week from an entry aged exactly ttl, while
\* the other key is cached too
C13_Witness ==
  /\ last.op = "cache_get"
  /\ last.status = "ok"
  /\ last.result = <<>>
  /\ Cardinality(DOMAIN store) = 2
  /\ now - store[cache_key(last.d)].ts = ttl

(***************************************************************************)
(* Properties of the cache entries over set, get and get_week              *)
(***************************************************************************)
\* the key the operation of the step works on
StepKey ==
  IF last'.op = "get_week" THEN cache_key(last'.d - (last'.d % 7)) ELSE cache_key(last'.d)

\* the step is a set for its key: cache.set, or a get_week that fetched
SetStep ==
  /\ calls' = calls + 1
  /\ \/ last'.op = "cache_set"
     \/ last'.op = "get_week" /\ last'.status = "ok" /\ last'.urls # <<>>

\* the step is a get for its key: cache.get, or the one inside get_week
GetStep == calls' = calls + 1 /\ last'.op \in {"cache_get", "get_week"}

\* C23: an entry appears only by a set for its key, changes only by a set for
\* its key, which stamps it with the current time, and disappears only by a
\* get for its key that finds it older than ttl; the entries of all other
\* keys stay as they are, expired ones included.
C23_EntryLifetime ==
  [][\A k \in DOMAIN store \cup DOMAIN store' :
       /\ (k \notin DOMAIN store \/ (k \in DOMAIN store' /\ store'[k] # store[k])) =>
            /\ SetStep
            /\ k = StepKey
            /\ store'[k].ts = now
       /\ k \notin DOMAIN store' =>
            /\ GetStep
            /\ k = StepKey
            /\ now - store[k].ts > ttl]_vars

\* a get that missed for its key while the entry of the other key, older
\* than ttl, is still there
C23_Witness ==
  /\ last.op = "cache_get"
  /\ last.status = "error"
  /\ calls >= 3
  /\ cache_key(last.d) \notin DOMAIN store
  /\ \E k \in DOMAIN store : now - store[k].ts > ttl

(***************************************************************************)
(* Properties of the window view against the offset views                  *)
(***************************************************************************)
\* the window call succeeded and every offset call of the base has returned
ViewsDone ==
  /\ last.op = "window_business_days"
  /\ last.status = "ok"
  /\ calls = pin.count + 1

\* every week the window fetched lists only dates of its own Monday-Sunday
\* week
OwnDatesOnly ==
  \A w \in DOMAIN last.weeks :
    \A e \in DOMAIN last.weeks[w][2] :
      \E d \in last.weeks[w][1]..(last.weeks[w][1] + 6) : last.weeks[w][2][e][1] = iso(d)

\* the statement as claimed: the window equals the offset mappings one after
\* another, whatever the upstream bodies hold
C25_WindowEqualsOffsets ==
  ViewsDone => (pout.ok /\ last.result = pout.val)

\* C25: with an upstream that answers the same way throughout,
\* window_business_days(base, count) and the mappings of day_at_offset(base, i)
\* for i = 0 .. count - 1, one after another, have the same keys in the same
\* order; the buckets are the same too when every week fetched lists only
\* dates of its own week, and otherwise the window gives a date the buckets
\* of the last fetched week that lists it while day_at_offset reads the
\* date's own week alone.
C25_WindowAgreesWithOffsets ==
  ViewsDone =>
    /\ pout.ok
    /\ DictKeys(last.result) = DictKeys(pout.val)
    /\ OwnDatesOnly => last.result = pout.val
    /\ \A i \in DOMAIN last.result :
         /\ last.result[i][2] = FromWeeks(last.weeks, last.result[i][1])
         /\ pout.val[i][2] =
              FromWeeks(SelectSeq(last.weeks,
                                  LAMBDA w : w[1] = WindowDate(last.d, i) - (WindowDate(last.d, i) % 7)),
                        last.result[i][1])

\* Friday with count 3 over two weeks that list their own dates only: the
\* first week lacks the Friday, the second has the Monday and the Tuesday
C25_Witness ==
  /\ ViewsDone
  /\ OwnDatesOnly
  /\ last.d = 4
  /\ last.n = 3
  /\ Len(last.weeks) = 2
  /\ last.result = pout.val
  /\ DictKeys(pout.val) = <<iso(4), iso(7), iso(8)>>
  /\ last.weeks[1][2] # <<>>
  /\ last.result[1][2] = NoData
  /\ last.result[2][2] # NoData
  /\ last.result[3][2] # NoData

====
